---- MODULE Spec2Model ----
(***************************************************************************)
(* A model of the ledger of src/bot.py: the SQLite table `ledger`, the     *)
(* writers add_entry and pop_last_entry, the readers pair_net_cents,       *)
(* top_counterparties and recent_entries, the amount parser, and the       *)
(* handlers /owe and /paid.                                                *)
(*                                                                         *)
(* Every database function is a coroutine: it opens its own connection and *)
(* is suspended at every await, where the event loop runs the calls of     *)
(* other handlers.  The model has one action per await.                    *)
(*                                                                         *)
(* A row is a record with the columns of SQL_INIT.  The column created_at  *)
(* (the wall clock at insert, copied verbatim by every SELECT and read by  *)
(* no WHERE, ORDER BY or aggregate) is not modelled.                       *)
(***************************************************************************)
EXTENDS Integers, Sequences, FiniteSets

VARIABLES
    ledger,     \* the committed rows of table ledger (a set of rows)
    seq,        \* sqlite_sequence.seq of ledger: the greatest id ever assigned
    lock,       \* the connection holding SQLite's RESERVED lock, or NoConn
    pending,    \* TRUE when that connection also holds the PENDING lock
    conn,       \* per task, the call it is making and the await it is at
    hist,       \* the calls written down, in the order they took effect
    ret         \* SpecParse: the outcome of parse_amount_to_cents, or the reply

vars == <<ledger, seq, lock, pending, conn, hist, ret>>

----------------------------------------------------------------------------
(* Bounds of the model. *)

\* add_entry is not called once this many ids have been or are being assigned.
MaxId == 3

\* SpecUndo: no call is made once this many calls have been written down.
MaxOps == 5

\* SpecConc: no call is made once this many calls have been written down.
MaxCalls == 3

----------------------------------------------------------------------------
(* Values. *)

\* Python's None / SQL NULL in a text column.
NoneStr == "<None>"

DEFAULT_CCY == "TWD"

\* The tasks, each with the connection its call opens; no connection.
Conns == {1, 2}

NoConn == 0

\* A task that is making no call.
IdleConn == [pc |-> "idle"]

NoCall == [op |-> "idle"]

\* A row as INSERT stores it: the nine bound columns and the id.
NewRow(id, guild_id, channel_id, creditor_id, debtor_id, amount_cents, currency, kind, note, created_by) ==
    [id |-> id, guild_id |-> guild_id, channel_id |-> channel_id,
     creditor_id |-> creditor_id, debtor_id |-> debtor_id,
     amount_cents |-> amount_cents, currency |-> currency, kind |-> kind,
     note |-> note, created_by |-> created_by]

\* `note or None`: None and the empty string are both stored as NULL.
NoteOrNone(note) == IF note = NoneStr \/ note = "" THEN NoneStr ELSE note

\* A CHECK that admits zero.
CheckAmount_AdmitsZero(amount_cents) == amount_cents >= 0

\* CHECK(amount_cents > 0) of the table.
CheckAmount(amount_cents) == amount_cents > 0

\* add_entry without its guard.
SelfReferential_Unchecked(creditor_id, debtor_id) == FALSE

\* `if creditor_id == debtor_id: raise ValueError`.
SelfReferential(creditor_id, debtor_id) == creditor_id = debtor_id

\* INTEGER PRIMARY KEY without AUTOINCREMENT: one more than the greatest
\* stored id.
NextId_Rowid(L, s) ==
    LET ids == {r.id : r \in L} \cup {0}
    IN  1 + CHOOSE m \in ids : \A i \in ids : i <= m

\* AUTOINCREMENT: one more than the greatest id ever assigned to the table.
NextId(L, s) ==
    LET ids == {r.id : r \in L} \cup {s}
    IN  1 + CHOOSE m \in ids : \A i \in ids : i <= m

----------------------------------------------------------------------------
(* Numerals.  A str is the sequence of its characters, each character its  *)
(* code point (ord): "5.0" is <<53, 46, 48>>.  A Python int that may       *)
(* exceed the model checker's integers is its decimal numeral: the         *)
(* sequence of its digits, greatest first, <<0>> for zero.                 *)

\* The code points of '.', ',' and '\n'.
DOT == 46

COMMA == 44

NEWLINE == 10

\* The digit zero of every script of decimal digits (Unicode 14.0, the
\* table of Python 3.11), 48 being '0'; the nine code points after each are
\* the script's digits one to nine.
DigitZeros ==
    {48, 1632, 1776, 1984, 2406, 2534, 2662, 2790, 2918, 3046, 3174, 3302,
     3430, 3558, 3664, 3792, 3872, 4160, 4240, 6112, 6160, 6470, 6608, 6784,
     6800, 6992, 7088, 7232, 7248, 42528, 43216, 43264, 43472, 43504, 43600,
     44016, 65296, 66720, 68912, 69734, 69872, 69942, 70096, 70384, 70736,
     70864, 71248, 71360, 71472, 71904, 72016, 72784, 73040, 73120, 92768,
     92864, 93008, 120782, 120792, 120802, 120812, 120822, 123200, 123632,
     125264, 130032}

\* \d of a str pattern: a decimal digit of any script.
IsDigit(c) == \E z \in DigitZeros : c \in z..(z + 9)

\* The digit's value, as float() reads it.
DigitVal(c) == c - (CHOOSE z \in DigitZeros : c \in z..(z + 9))

\* The numeral without its leading zeros.
Norm(n) ==
    LET nz == {i \in 1..Len(n) : n[i] # 0}
    IN  IF nz = {} THEN <<0>>
        ELSE SubSeq(n, CHOOSE i \in nz : \A k \in nz : i <= k, Len(n))

\* int(digits): the number a string of digits denotes.
IntOf(digits) == Norm([i \in 1..Len(digits) |-> DigitVal(digits[i])])

\* a < b, for numerals without leading zeros.
Less(a, b) ==
    IF Len(a) # Len(b) THEN Len(a) < Len(b)
    ELSE LET d == {i \in 1..Len(a) : a[i] # b[i]}
         IN  d # {} /\ LET i == CHOOSE x \in d : \A y \in d : x <= y
                       IN  a[i] < b[i]

IsOdd(n) == n[Len(n)] % 2 = 1

\* 2 * n: a digit of 5 or more carries one into the digit before it.
Twice(n) ==
    LET z == <<0>> \o n
        carry(i) == IF i < Len(z) /\ z[i + 1] >= 5 THEN 1 ELSE 0
    IN  Norm([i \in 1..Len(z) |-> (2 * z[i] + carry(i)) % 10])

\* n + 1: the nines at the end turn to zeros and the digit before them grows.
Inc(n) ==
    LET z == <<0>> \o n
        not9 == {i \in 1..Len(z) : z[i] # 9}
        k == CHOOSE i \in not9 : \A x \in not9 : x <= i
    IN  Norm([i \in 1..Len(z) |->
                IF i < k THEN z[i] ELSE IF i = k THEN z[i] + 1 ELSE 0])

\* n // 2: an odd digit carries ten into the digit after it.
Half(n) ==
    LET z == <<0>> \o n
    IN  Norm([i \in 1..Len(n) |-> (10 * (z[i] % 2) + z[i + 1]) \div 2])

\* n * 10^f
TimesPow10(n, f) == IF n = <<0>> THEN n ELSE n \o [i \in 1..f |-> 0]

\* n // 10^f and n % 10^f (f <= 2, so the remainder is a small integer).
QuotPow10(n, f) == IF Len(n) <= f THEN <<0>> ELSE SubSeq(n, 1, Len(n) - f)

RemPow10(n, f) ==
    LET RECURSIVE Val(_)
        Val(d) == IF d = <<>> THEN 0 ELSE 10 * Val(SubSeq(d, 1, Len(d) - 1)) + d[Len(d)]
    IN  IF Len(n) <= f THEN Val(n) ELSE Val(SubSeq(n, Len(n) - f + 1, Len(n)))

RECURSIVE Pow10(_)
Pow10(f) == IF f = 0 THEN 1 ELSE 10 * Pow10(f - 1)

\* The number of a numeral that the model checker's integers hold.
RECURSIVE NatOf(_)
NatOf(n) == IF n = <<>> THEN 0 ELSE 10 * NatOf(SubSeq(n, 1, Len(n) - 1)) + n[Len(n)]

----------------------------------------------------------------------------
(* float.  A Python float is an IEEE 754 binary64: [m, e] is the number    *)
(* m * 2^e with 2^52 <= m < 2^53, or m = 0.  Every operation returns the   *)
(* float nearest to its exact result, a tie going to the even m; a result  *)
(* of 2^1024 or more is inf, held as an [m, e] with e above MaxExp.  (An   *)
(* amount that is not zero is 0.01 at least, far from the subnormal.)      *)

\* The greatest exponent of a finite float: (2^53 - 1) * 2^971.
MaxExp == 971

IsInf(x) == x.e > MaxExp

\* 2^52 and 2^53, the bounds of a binary64's significand of 53 bits.
TwoTo52 == <<4, 5, 0, 3, 5, 9, 9, 6, 2, 7, 3, 7, 0, 4, 9, 6>>

TwoTo53 == <<9, 0, 0, 7, 1, 9, 9, 2, 5, 4, 7, 4, 0, 9, 9, 2>>

\* a // 2^j as [q, j, half, sticky]: the quotient, the last bit shifted out
\* (half) and whether anything below that bit was not zero (sticky).
Unshifted(a, sticky) == [q |-> a, j |-> 0, half |-> FALSE, sticky |-> sticky]

\* One more halving.
ShrStep(x) ==
    [q |-> Half(x.q), j |-> x.j + 1, half |-> IsOdd(x.q),
     sticky |-> x.sticky \/ x.half]

\* j more halvings (or fewer, when nothing but zeros is left): one half of
\* them, then the rest.
RECURSIVE Shr(_, _)
Shr(x, j) ==
    IF j = 0 \/ (x.q = <<0>> /\ ~x.half /\ ~x.sticky) THEN x
    ELSE IF j = 1 THEN ShrStep(x)
    ELSE Shr(Shr(x, j \div 2), j - j \div 2)

\* Halvings that leave a quotient of 2^53 at least: a numeral of L digits is
\* 10^(L-1) or more, which is above 2^(3321 (L-1) / 1000).
Halvings(q) ==
    LET b == (3321 * (Len(q) - 1)) \div 1000
    IN  IF b > 53 THEN b - 53 ELSE 0

\* Halving while the quotient is 2^53 or more.
RECURSIVE ShrWhile(_)
ShrWhile(x) == IF Less(x.q, TwoTo53) THEN x ELSE ShrWhile(ShrStep(x))

\* Halving until the quotient is below 2^53.
ShrBelow(x) == ShrWhile(Shr(x, Halvings(x.q)))

\* a * 2^j: one half of the doublings, then the rest.
RECURSIVE Shl(_, _)
Shl(a, j) ==
    IF j = 0 \/ a = <<0>> THEN a
    ELSE IF j = 1 THEN Twice(a)
    ELSE Shl(Shl(a, j \div 2), j - j \div 2)

\* Round half to even: the integer nearest to q + (half, sticky).
RoundHalfEven(x) ==
    IF x.half /\ (x.sticky \/ IsOdd(x.q)) THEN Inc(x.q) ELSE x.q

\* A significand rounded up to 2^53 is 2^52 with the next exponent.
Normalise(m, e) ==
    IF m = TwoTo53 THEN [m |-> TwoTo52, e |-> e + 1] ELSE [m |-> m, e |-> e]

\* Doubling a until a // 10^f has 53 bits; k counts the doublings.
RECURSIVE ScaleUp(_, _, _)
ScaleUp(a, k, f) ==
    IF ~Less(QuotPow10(a, f), TwoTo52) THEN [a |-> a, k |-> k]
    ELSE ScaleUp(Twice(a), k + 1, f)

\* The float nearest to n / 10^f: float("12.5") with n = 125 and f = 1, and
\* n / 100 with f = 2.
FloatOfRatio(n, f) ==
    IF n = <<0>> THEN [m |-> <<0>>, e |-> 0]
    ELSE IF ~Less(QuotPow10(n, f), TwoTo53)
    THEN LET x == ShrBelow(Unshifted(QuotPow10(n, f), RemPow10(n, f) # 0))
         IN  Normalise(RoundHalfEven(x), x.j)
    ELSE LET u == ScaleUp(n, 0, f)
             q == QuotPow10(u.a, f)
             r == RemPow10(u.a, f)
             up == \/ 2 * r > Pow10(f)
                   \/ 2 * r = Pow10(f) /\ IsOdd(q)
         IN  Normalise(IF up THEN Inc(q) ELSE q, -u.k)

\* x * 100
FloatTimes100(x) ==
    IF x.m = <<0>> \/ IsInf(x) THEN x
    ELSE LET y == ShrBelow(Unshifted(TimesPow10(x.m, 2), FALSE))
         IN  Normalise(RoundHalfEven(y), x.e + y.j)

\* round(x) as [err, val]: the int nearest to x, a tie going to the even
\* one; round(inf) raises OverflowError.
PyRound(x) ==
    IF IsInf(x) THEN [err |-> "OverflowError", val |-> <<>>]
    ELSE [err |-> "",
          val |-> <<IF x.e >= 0 THEN Shl(x.m, x.e)
                    ELSE RoundHalfEven(Shr(Unshifted(x.m, FALSE), -x.e))>>]

\* f"{x:.2f}": x's exact value rounded to two decimals, half to even, in
\* ASCII digits; "inf" for inf.
FormatFloat2f(x) ==
    LET h == TimesPow10(x.m, 2)
        n == IF x.e >= 0 THEN Shl(h, x.e)
             ELSE RoundHalfEven(Shr(Unshifted(h, FALSE), -x.e))
        d == IF Len(n) < 3 THEN [i \in 1..(3 - Len(n)) |-> 0] \o n ELSE n
        ch(i) == 48 + i
    IN  IF IsInf(x) THEN <<105, 110, 102>>
        ELSE [i \in 1..(Len(d) - 2) |-> ch(d[i])] \o <<DOT>>
             \o <<ch(d[Len(d) - 1]), ch(d[Len(d)])>>

\* f"{cents/100:.2f}" of the handlers' replies: [err, val], val the text.
\* cents/100 raises OverflowError when the quotient is no finite float.
FormatCents(cents) ==
    LET x == FloatOfRatio(cents, 2)
    IN  IF IsInf(x) THEN [err |-> "OverflowError", val |-> <<>>]
        ELSE [err |-> "", val |-> FormatFloat2f(x)]

----------------------------------------------------------------------------
(* parse_amount_to_cents *)

ERR_FORMAT == "ValueError: amount format"
ERR_NONPOSITIVE == "ValueError: amount must be > 0"

\* The characters str.strip() removes: the white space of Unicode.
IsSpace(c) ==
    c \in (9..13) \cup (28..32) \cup {133, 160, 5760} \cup (8192..8202)
           \cup {8232, 8233, 8239, 8287, 12288}

\* amount_str.strip()
RECURSIVE LStrip(_)
LStrip(s) == IF s # <<>> /\ IsSpace(Head(s)) THEN LStrip(Tail(s)) ELSE s

RECURSIVE RStrip(_)
RStrip(s) ==
    IF s # <<>> /\ IsSpace(s[Len(s)]) THEN RStrip(SubSeq(s, 1, Len(s) - 1)) ELSE s

Strip(s) == RStrip(LStrip(s))

AllDigits(s) == \A i \in 1..Len(s) : IsDigit(s[i])

\* $ matches at the end of the string and before a newline that ends it:
\* the part of s the pattern has to match.
GroupNum(s) ==
    IF s # <<>> /\ s[Len(s)] = NEWLINE THEN SubSeq(s, 1, Len(s) - 1) ELSE s

\* \d+(?:[.,]\d{1,2})? matching all of t.
NumMatch(t) ==
    \/ t # <<>> /\ AllDigits(t)
    \/ \E i \in 2..(Len(t) - 1) :
         /\ t[i] \in {DOT, COMMA}
         /\ AllDigits(SubSeq(t, 1, i - 1))
         /\ Len(t) - i \in {1, 2}
         /\ AllDigits(SubSeq(t, i + 1, Len(t)))

\* A pattern with any number of fraction digits: ^(?P<num>\d+(?:[.,]\d+)?)$
AmountMatch_AnyFraction(s) ==
    \/ s # <<>> /\ AllDigits(s)
    \/ \E i \in 2..(Len(s) - 1) :
         /\ s[i] \in {DOT, COMMA}
         /\ AllDigits(SubSeq(s, 1, i - 1))
         /\ AllDigits(SubSeq(s, i + 1, Len(s)))

\* AMOUNT_RE.match(s): ^(?P<num>\d+(?:[.,]\d{1,2})?)$
AmountMatch(s) == NumMatch(s) \/ NumMatch(GroupNum(s))

\* m.group('num').replace(',', '.')
ReplaceComma(s) == [i \in 1..Len(s) |-> IF s[i] = COMMA THEN DOT ELSE s[i]]

\* float(num), num matching the pattern: the digits of any script count by
\* their values.
Float(num) ==
    LET digits == SelectSeq(num, IsDigit)
        dots == {i \in 1..Len(num) : num[i] = DOT}
        f == IF dots = {} THEN 0 ELSE Len(num) - (CHOOSE i \in dots : TRUE)
    IN  FloatOfRatio(IntOf(digits), f)

\* A parse without `if cents <= 0`.
NonPositive_Unchecked(cents) == FALSE

\* `if cents <= 0` (the pattern admits no sign, so cents is never negative).
NonPositive(cents) == cents = <<0>>

\* What parse_amount_to_cents answers: [err, val], val <<cents>> on success.
\* An amount of some 307 digits or more makes float(num) * 100 inf, and
\* round(inf) raises OverflowError, which is no ValueError.
parse_amount_to_cents_result(amount_str) ==
    LET s == Strip(amount_str)
    IN  IF ~AmountMatch(s)
        THEN [err |-> ERR_FORMAT, val |-> <<>>]
        ELSE LET num == ReplaceComma(GroupNum(s))
                 cents == PyRound(FloatTimes100(Float(num)))
             IN  IF cents.err # "" THEN cents
                 ELSE IF NonPositive(cents.val[1])
                 THEN [err |-> ERR_NONPOSITIVE, val |-> <<>>]
                 ELSE cents

parse_amount_to_cents(amount_str) ==
    LET o == parse_amount_to_cents_result(amount_str)
    IN  /\ ret' = [op |-> "parse_amount_to_cents", args |-> amount_str,
                   err |-> o.err, val |-> o.val]
        /\ UNCHANGED <<ledger, seq>>

----------------------------------------------------------------------------
(* Integers.  A Python int is unbounded: [neg, abs] is the int of sign neg *)
(* and magnitude abs, a numeral.  An INTEGER of SQLite is a signed 64-bit  *)
(* integer: the columns of a row hold such, the sqlite3 module binds a     *)
(* Python int to a statement as one, and SUM and ABS compute in them.      *)
(* The ids of Discord are 64-bit snowflakes and the limits are those the   *)
(* handlers pass, so of the arguments only amount_cents, which the parser  *)
(* computes from what the user typed, may be beyond an INTEGER.            *)

\* The Python int n.
PyInt(n) ==
    LET RECURSIVE Numeral(_)
        Numeral(k) == IF k < 10 THEN <<k>> ELSE Numeral(k \div 10) \o <<k % 10>>
    IN  [neg |-> n < 0, abs |-> Numeral(IF n < 0 THEN -n ELSE n)]

\* -2^63 <= x <= 2^63 - 1: the Python int x is an INTEGER.  sqlite3 raises
\* OverflowError (Python int too large to convert to SQLite INTEGER) when it
\* is given another to bind.
FitsInt64(x) ==
    LET INT64_MAX == <<9, 2, 2, 3, 3, 7, 2, 0, 3, 6, 8, 5, 4, 7, 7, 5, 8, 0, 7>>
    IN  IF x.neg THEN ~Less(Inc(INT64_MAX), x.abs)
        ELSE ~Less(INT64_MAX, x.abs)

\* The INTEGER bound for a Python int that is one.
Int64Of(x) == IF x.neg THEN -NatOf(x.abs) ELSE NatOf(x.abs)

----------------------------------------------------------------------------
(* Table scans.  A SELECT visits the rows in some order; the model fixes   *)
(* ascending id and states every result that depends on order explicitly.  *)

RECURSIVE Scan(_)
Scan(L) ==
    IF L = {} THEN <<>>
    ELSE LET r == CHOOSE x \in L : \A y \in L : x.id <= y.id
         IN  <<r>> \o Scan(L \ {r})

\* ORDER BY id ASC.
OrderByIdDesc_Ascending(L) == Scan(L)

\* ORDER BY id DESC of a set of rows.
RECURSIVE OrderByIdDesc(_)
OrderByIdDesc(L) ==
    IF L = {} THEN <<>>
    ELSE LET r == CHOOSE x \in L : \A y \in L : x.id >= y.id
         IN  <<r>> \o OrderByIdDesc(L \ {r})

\* LIMIT n of an ordered result (SQLite: a negative n is no limit).
Limit(s, n) == IF n < 0 \/ Len(s) < n THEN s ELSE SubSeq(s, 1, n)

\* COALESCE(x, d).
Coalesce(x, d) == IF x = <<>> THEN d ELSE x[1]

\* One row more of SUM over INTEGERs: <<>> is NULL (no row yet), <<v>> the
\* total so far.  A total that is no INTEGER fails the statement:
\* sqlite3.OperationalError (integer overflow).
SumStep(acc, v) ==
    IF acc.err # "" THEN acc
    ELSE LET t == Coalesce(acc.val, 0) + v
         IN  IF FitsInt64(PyInt(t)) THEN [err |-> "", val |-> <<t>>]
             ELSE [err |-> "OperationalError", val |-> <<>>]

\* SUM(amount_cents) of a result, its rows taken in turn.
RECURSIVE SqlSum(_)
SqlSum(s) ==
    IF s = <<>> THEN [err |-> "", val |-> <<>>]
    ELSE SumStep(SqlSum(SubSeq(s, 1, Len(s) - 1)), s[Len(s)].amount_cents)

----------------------------------------------------------------------------
(* The statements of the calls, as functions of the table they run on. *)

\* A filter without the actor, and one without the channel.
PopFilter_AnyActor(r, guild_id, channel_id, created_by) ==
    /\ r.guild_id = guild_id
    /\ r.channel_id = channel_id

PopFilter_AnyChannel(r, guild_id, channel_id, created_by) ==
    /\ r.guild_id = guild_id
    /\ r.created_by = created_by

\* WHERE guild_id=? AND channel_id=? AND created_by=?
PopFilter(r, guild_id, channel_id, created_by) ==
    /\ r.guild_id = guild_id
    /\ r.channel_id = channel_id
    /\ r.created_by = created_by

\* The columns pop_last_entry selects.
PopColumns(r) ==
    [id |-> r.id, creditor_id |-> r.creditor_id, debtor_id |-> r.debtor_id,
     amount_cents |-> r.amount_cents, currency |-> r.currency,
     kind |-> r.kind, note |-> r.note]

\* SELECT ... ORDER BY id DESC LIMIT 1, fetchone(): <<>> is None.
PopSelect(L, guild_id, channel_id, created_by) ==
    Limit(OrderByIdDesc({r \in L : PopFilter(r, guild_id, channel_id, created_by)}), 1)

\* A DELETE that also takes the rows before the one named.
DeleteById_Older(L, id) == {r \in L : r.id > id}

\* DELETE FROM ledger WHERE id=?
DeleteById(L, id) == {r \in L : r.id # id}

\* A directed sum over the rows of every guild.
SumDirected_AnyGuild(L, guild_id, creditor_id, debtor_id) ==
    LET Where(r) == /\ r.creditor_id = creditor_id
                    /\ r.debtor_id = debtor_id
        sum == SqlSum(SelectSeq(Scan(L), Where))
    IN  IF sum.err # "" THEN sum
        ELSE [err |-> "", val |-> Coalesce(sum.val, 0)]

\* SELECT COALESCE(SUM(amount_cents),0) FROM ledger
\* WHERE guild_id=? AND creditor_id=? AND debtor_id=?
\* [err, val]: the sum in val, or the error the statement fails with.
SumDirected(L, guild_id, creditor_id, debtor_id) ==
    LET Where(r) == /\ r.guild_id = guild_id
                    /\ r.creditor_id = creditor_id
                    /\ r.debtor_id = debtor_id
        sum == SqlSum(SelectSeq(Scan(L), Where))
    IN  IF sum.err # "" THEN sum
        ELSE [err |-> "", val |-> Coalesce(sum.val, 0)]

\* The two sums added.
Net_Added(s1, s2) == s1 + s2

\* return s1 - s2 (of Python ints: no bound).
Net(s1, s2) == s1 - s2

\* What pair_net_cents does when both its SELECTs read the table L: [err,
\* val] with the value it returns in val, or with the error the first of
\* its SELECTs to fail raises.
pair_net_cents_result(L, guild_id, a_id, b_id) ==
    LET s1 == SumDirected(L, guild_id, a_id, b_id)
        s2 == SumDirected(L, guild_id, b_id, a_id)
    IN  IF s1.err # "" THEN s1
        ELSE IF s2.err # "" THEN s2
        ELSE [err |-> "", val |-> Net(s1.val, s2.val)]

\* ABS(n) of an INTEGER: [err, val].  -2^63 has no absolute value among the
\* INTEGERs and fails the statement: sqlite3.OperationalError (integer
\* overflow).
Abs(n) ==
    IF ~FitsInt64(PyInt(-n)) THEN [err |-> "OperationalError", val |-> <<>>]
    ELSE [err |-> "", val |-> IF n < 0 THEN -n ELSE n]

\* WITH pairs AS (SELECT creditor_id AS a, debtor_id AS b, amount_cents
\*                FROM ledger WHERE guild_id=? AND (creditor_id=? OR debtor_id=?))
Pairs(L, guild_id, me_id) ==
    LET Where(r) == /\ r.guild_id = guild_id
                    /\ (r.creditor_id = me_id \/ r.debtor_id = me_id)
        rows == SelectSeq(Scan(L), Where)
    IN  [i \in 1..Len(rows) |->
            [a |-> rows[i].creditor_id, b |-> rows[i].debtor_id,
             amount_cents |-> rows[i].amount_cents]]

\* SELECT b AS other_id, amount_cents, 'recv' AS role FROM pairs WHERE a = ?
\* UNION ALL
\* SELECT a AS other_id, amount_cents, 'pay' AS role FROM pairs WHERE b = ?
\* The rows of the first SELECT, then those of the second.
RoleRows(L, guild_id, me_id) ==
    LET pairs == Pairs(L, guild_id, me_id)
        IsA(p) == p.a = me_id
        IsB(p) == p.b = me_id
        recv == SelectSeq(pairs, IsA)
        pay == SelectSeq(pairs, IsB)
    IN  [i \in 1..Len(recv) |->
            [other_id |-> recv[i].b, amount_cents |-> recv[i].amount_cents,
             role |-> "recv"]]
        \o
        [i \in 1..Len(pay) |->
            [other_id |-> pay[i].a, amount_cents |-> pay[i].amount_cents,
             role |-> "pay"]]

\* SUM(CASE WHEN role='recv' THEN amount_cents ELSE -amount_cents END) of the
\* rows of one group, taken in the order of the UNION ALL (the 'recv' rows
\* come to the sum before the 'pay' rows): [err, val], val being <<net>>.
RECURSIVE SignedSum(_, _)
SignedSum(rows, other_id) ==
    IF rows = <<>> THEN [err |-> "", val |-> <<>>]
    ELSE LET h == rows[Len(rows)]
             acc == SignedSum(SubSeq(rows, 1, Len(rows) - 1), other_id)
         IN  IF h.other_id # other_id THEN acc
             ELSE SumStep(acc, IF h.role = "recv" THEN h.amount_cents
                               ELSE -h.amount_cents)

\* The groups without the HAVING clause.
Groups_NoHaving(L, guild_id, me_id) ==
    LET rows == RoleRows(L, guild_id, me_id)
        others == {rows[i].other_id : i \in 1..Len(rows)}
    IN  IF \E o \in others : SignedSum(rows, o).err # ""
        THEN [err |-> "OperationalError", val |-> {}]
        ELSE [err |-> "",
              val |-> {<<o, SignedSum(rows, o).val[1]>> : o \in others}]

\* GROUP BY other_id HAVING net != 0: [err, val], val being the set of
\* <<other_id, net>>; the statement fails when the SUM of a group does.
Groups(L, guild_id, me_id) ==
    LET rows == RoleRows(L, guild_id, me_id)
        others == {rows[i].other_id : i \in 1..Len(rows)}
    IN  IF \E o \in others : SignedSum(rows, o).err # ""
        THEN [err |-> "OperationalError", val |-> {}]
        ELSE [err |-> "",
              val |-> {g \in {<<o, SignedSum(rows, o).val[1]>> : o \in others} :
                         g[2] # 0}]

\* ORDER BY ABS(net) DESC names no second key: SQL leaves the order of groups
\* of equal ABS(net) to the engine.  Every order it may produce.
OrderByAbsNetDesc(G) ==
    LET n == Cardinality(G)
    IN  {s \in [1..n -> G] :
            /\ \A i, j \in 1..n : i # j => s[i] # s[j]
            /\ \A i, j \in 1..n : i < j => Abs(s[i][2]).val >= Abs(s[j][2]).val}

\* What top_counterparties may do on the table L: the set of [err, val],
\* val being the rows it returns.  LIMIT 0 ends the statement before it
\* reads a row; otherwise it fails when the SUM of a group or the ABS of a
\* group's net does.
top_counterparties_results(L, guild_id, me_id, limit) ==
    LET G == Groups(L, guild_id, me_id)
    IN  IF limit = 0 THEN {[err |-> "", val |-> <<>>]}
        ELSE IF G.err # "" THEN {[err |-> G.err, val |-> <<>>]}
        ELSE IF \E g \in G.val : Abs(g[2]).err # ""
        THEN {[err |-> "OperationalError", val |-> <<>>]}
        ELSE {[err |-> "", val |-> Limit(s, limit)] :
                s \in OrderByAbsNetDesc(G.val)}

\* b_id of a call without a counterparty: `if b_id:` takes None and 0 alike.
NoUser == 0

\* The WHERE clauses without guild_id=?.
RecentWhere_AnyGuild(r, guild_id, a_id, b_id) ==
    IF b_id # NoUser
    THEN \/ r.creditor_id = a_id /\ r.debtor_id = b_id
         \/ r.creditor_id = b_id /\ r.debtor_id = a_id
    ELSE r.creditor_id = a_id \/ r.debtor_id = a_id

\* if b_id: WHERE guild_id=? AND ((creditor_id=? AND debtor_id=?) OR
\*                               (creditor_id=? AND debtor_id=?))
\* else:    WHERE guild_id=? AND (creditor_id=? OR debtor_id=?)
RecentWhere(r, guild_id, a_id, b_id) ==
    IF b_id # NoUser
    THEN /\ r.guild_id = guild_id
         /\ \/ r.creditor_id = a_id /\ r.debtor_id = b_id
            \/ r.creditor_id = b_id /\ r.debtor_id = a_id
    ELSE /\ r.guild_id = guild_id
         /\ (r.creditor_id = a_id \/ r.debtor_id = a_id)

\* SELECT id, creditor_id, debtor_id, amount_cents, currency, kind, note,
\* created_by (created_at, the clock's reading at the insert, is not modelled).
RecentColumns(r) ==
    [id |-> r.id, creditor_id |-> r.creditor_id, debtor_id |-> r.debtor_id,
     amount_cents |-> r.amount_cents, currency |-> r.currency, kind |-> r.kind,
     note |-> r.note, created_by |-> r.created_by]

\* ... ORDER BY id DESC LIMIT ?; fetchall().
recent_entries_result(L, guild_id, a_id, b_id, limit) ==
    LET rows == OrderByIdDesc({r \in L : RecentWhere(r, guild_id, a_id, b_id)})
    IN  Limit([i \in 1..Len(rows) |-> RecentColumns(rows[i])], limit)

----------------------------------------------------------------------------
(* Calls.  A task's call is a record: pc names the await it is suspended   *)
(* at, got holds what its statements have fetched so far, err and val the  *)
(* exception or value it ends with.  seen (pair_net_cents only) holds the  *)
(* tables that were the committed table while the call was under way; cmd  *)
(* the command of a call made by /owe or /paid; log tells whether the call *)
(* is observed: a writer's call is then written down in hist, and seen is  *)
(* kept for a call of pair_net_cents.                                      *)

Busy(p) == conn[p].pc # "idle"

\* The call has been made and awaits aiosqlite.connect.
NewCall(op, args, log) ==
    [pc |-> "connect", op |-> op, args |-> args, cmd |-> <<>>, got |-> <<>>,
     err |-> "", val |-> <<>>,
     seen |-> IF op = "pair_net_cents" /\ log THEN {ledger} ELSE {}, log |-> log]

\* The call raised before it opened a connection.
RaisedCall(op, args, log, err) ==
    [NewCall(op, args, log) EXCEPT !.pc = "raised", !.err = err]

\* What a call that has ended says of itself.
Outcome(c) ==
    IF c.cmd = <<>>
    THEN [op |-> c.op, args |-> c.args, err |-> c.err, val |-> c.val]
    ELSE [op |-> c.cmd[1].op, args |-> c.cmd[1].args, err |-> c.err,
          val |-> c.val,
          text |-> IF c.err = "" THEN c.cmd[1].text ELSE <<>>]

\* The call c of task p takes effect (or fails for good) in this step on the
\* table `ledger`.  A call refused by a busy database is not written down.
Written(p, c) ==
    hist' = IF c.log
            THEN Append(hist, [conn |-> p, call |-> Outcome(c), before |-> ledger])
            ELSE hist

\* Task p holds a SHARED lock: it has executed a SELECT outside a
\* transaction whose rows it has not fetched yet (a SELECT that found no row
\* has ended and holds nothing).
Shared(p) ==
    \/ conn[p].pc \in {"fetchone1", "fetchone2"}
    \/ conn[p].pc = "fetchall" /\ conn[p].got[1] # <<>>

\* The calls of pair_net_cents under way see the table T committed.
SeenBy(q, T) ==
    IF Busy(q) /\ conn[q].op = "pair_net_cents" /\ conn[q].log
    THEN [conn[q] EXCEPT !.seen = @ \cup {T}]
    ELSE conn[q]

----------------------------------------------------------------------------
(* The calls. *)

\* add_entry is called by task p: the guard, then aiosqlite.connect.
add_entry(p, a, log) ==
    /\ ~Busy(p)
    /\ LET c == IF SelfReferential(a.creditor_id, a.debtor_id)
                THEN RaisedCall("add_entry", a, log, "ValueError")
                ELSE NewCall("add_entry", a, log)
       IN  /\ conn' = [conn EXCEPT ![p] = c]
           /\ IF c.pc = "raised" THEN Written(p, c) ELSE hist' = hist
    /\ UNCHANGED <<ledger, seq, lock, pending, ret>>

\* pop_last_entry is called by task p: aiosqlite.connect.
pop_last_entry(p, guild_id, channel_id, created_by, log) ==
    /\ ~Busy(p)
    /\ conn' = [conn EXCEPT ![p] =
                  NewCall("pop_last_entry",
                          [guild_id |-> guild_id, channel_id |-> channel_id,
                           created_by |-> created_by], log)]
    /\ UNCHANGED <<ledger, seq, lock, pending, hist, ret>>

\* pair_net_cents is called by task p: aiosqlite.connect.
pair_net_cents(p, guild_id, a_id, b_id, log) ==
    /\ ~Busy(p)
    /\ conn' = [conn EXCEPT ![p] =
                  NewCall("pair_net_cents",
                          [guild_id |-> guild_id, a_id |-> a_id, b_id |-> b_id],
                          log)]
    /\ UNCHANGED <<ledger, seq, lock, pending, hist, ret>>

\* top_counterparties is called by task p: aiosqlite.connect.
top_counterparties(p, guild_id, me_id, limit) ==
    /\ ~Busy(p)
    /\ conn' = [conn EXCEPT ![p] =
                  NewCall("top_counterparties",
                          [guild_id |-> guild_id, me_id |-> me_id, limit |-> limit],
                          FALSE)]
    /\ UNCHANGED <<ledger, seq, lock, pending, hist, ret>>

\* recent_entries is called by task p: aiosqlite.connect.
recent_entries(p, guild_id, a_id, b_id, limit) ==
    /\ ~Busy(p)
    /\ conn' = [conn EXCEPT ![p] =
                  NewCall("recent_entries",
                          [guild_id |-> guild_id, a_id |-> a_id, b_id |-> b_id,
                           limit |-> limit], FALSE)]
    /\ UNCHANGED <<ledger, seq, lock, pending, hist, ret>>

----------------------------------------------------------------------------
(* The awaits.  BEGIN IMMEDIATE takes the RESERVED lock, which one         *)
(* connection holds at a time; a commit needs the readers' SHARED locks    *)
(* gone; a statement that waits for a lock longer than the busy timeout    *)
(* (5 s) raises OperationalError (database is locked).  What a             *)
(* transaction wrote reaches the table other connections read at its       *)
(* commit.                                                                 *)

\* await aiosqlite.connect(DB_PATH): the connection is open.
Connect(p) ==
    /\ conn[p].pc = "connect"
    /\ conn' = [conn EXCEPT ![p].pc =
                  CASE conn[p].op \in {"add_entry", "pop_last_entry"} -> "begin"
                    [] conn[p].op = "pair_net_cents" -> "execute1"
                    [] OTHER -> "execute"]
    /\ UNCHANGED <<ledger, seq, lock, pending, hist, ret>>

\* A connection that lets BEGIN IMMEDIATE pass although the lock is held.
MayBegin_Unlocked(p) == TRUE

\* BEGIN IMMEDIATE is granted when no connection holds the RESERVED lock.
MayBegin(p) == lock = NoConn

\* await db.execute("BEGIN IMMEDIATE"), granted.
BeginImmediate(p) ==
    /\ conn[p].pc = "begin"
    /\ MayBegin(p)
    /\ lock' = p
    /\ conn' = [conn EXCEPT ![p].pc =
                  IF conn[p].op = "add_entry" THEN "insert" ELSE "select"]
    /\ UNCHANGED <<ledger, seq, pending, hist, ret>>

\* await db.execute("BEGIN IMMEDIATE"), refused: the lock stayed held for the
\* busy timeout and sqlite3 raises OperationalError (database is locked).
BeginBusy(p) ==
    /\ conn[p].pc = "begin"
    /\ lock # NoConn
    /\ conn' = [conn EXCEPT ![p].pc = "close", ![p].err = "OperationalError"]
    /\ UNCHANGED <<ledger, seq, lock, pending, hist, ret>>

\* await db.execute("INSERT ...", (..., amount_cents, ...)): an amount
\* that is no INTEGER cannot be bound (OverflowError), or the CHECK refuses
\* the row (IntegrityError), the transaction staying open until the
\* connection closes; or the row gets its id.
Insert(p) ==
    /\ conn[p].pc = "insert"
    /\ LET a == conn[p].args
           c == IF ~FitsInt64(a.amount_cents)
                THEN [conn[p] EXCEPT !.pc = "close", !.err = "OverflowError"]
                ELSE IF ~CheckAmount(Int64Of(a.amount_cents))
                THEN [conn[p] EXCEPT !.pc = "close", !.err = "IntegrityError"]
                ELSE [conn[p] EXCEPT
                        !.pc = "commit",
                        !.got = <<NewRow(NextId(ledger, seq), a.guild_id,
                                         a.channel_id, a.creditor_id,
                                         a.debtor_id, Int64Of(a.amount_cents),
                                         a.currency, a.kind,
                                         NoteOrNone(a.note), a.created_by)>>]
       IN  /\ conn' = [conn EXCEPT ![p] = c]
           /\ IF c.pc = "close" THEN Written(p, c) ELSE hist' = hist
    /\ UNCHANGED <<ledger, seq, lock, pending, ret>>

\* cur = await db.execute("SELECT ... ORDER BY id DESC LIMIT 1") of
\* pop_last_entry, inside its transaction.
PopExecute(p) ==
    /\ conn[p].pc = "select"
    /\ LET a == conn[p].args
       IN  conn' = [conn EXCEPT
                      ![p].pc = "fetchone",
                      ![p].got = PopSelect(ledger, a.guild_id, a.channel_id,
                                           a.created_by)]
    /\ UNCHANGED <<ledger, seq, lock, pending, hist, ret>>

\* row = await cur.fetchone(); `if not row`.
PopFetchone(p) ==
    /\ conn[p].pc = "fetchone"
    /\ conn' = [conn EXCEPT ![p].pc =
                  IF conn[p].got = <<>> THEN "rollback" ELSE "delete"]
    /\ UNCHANGED <<ledger, seq, lock, pending, hist, ret>>

\* await db.rollback(); return None.
Rollback(p) ==
    /\ conn[p].pc = "rollback"
    /\ LET c == [conn[p] EXCEPT !.pc = "close"]
       IN  /\ conn' = [conn EXCEPT ![p] = c]
           /\ Written(p, c)
    /\ lock' = IF lock = p THEN NoConn ELSE lock
    /\ UNCHANGED <<ledger, seq, pending, ret>>

\* await db.execute("DELETE FROM ledger WHERE id=?"), inside the transaction.
Delete(p) ==
    /\ conn[p].pc = "delete"
    /\ conn' = [conn EXCEPT ![p].pc = "commit"]
    /\ UNCHANGED <<ledger, seq, lock, pending, hist, ret>>

\* await db.commit() with no other connection reading: the transaction's
\* write reaches the table; `return cur.lastrowid` / `return row`.
Commit(p) ==
    /\ conn[p].pc = "commit"
    /\ \A q \in Conns \ {p} : ~Shared(q)
    /\ LET c == conn[p]
           add == c.op = "add_entry"
           T == IF add THEN ledger \cup {c.got[1]}
                ELSE DeleteById(ledger, c.got[1].id)
           d == [c EXCEPT !.pc = "close",
                          !.val = IF add THEN <<c.got[1].id>>
                                  ELSE <<PopColumns(c.got[1])>>]
       IN  /\ ledger' = T
           /\ seq' = IF add THEN c.got[1].id ELSE seq
           /\ conn' = [q \in Conns |-> IF q = p THEN d ELSE SeenBy(q, T)]
           /\ Written(p, d)
    /\ lock' = IF lock = p THEN NoConn ELSE lock
    /\ UNCHANGED <<pending, ret>>

\* await db.commit() while another connection holds a SHARED lock for the
\* busy timeout: OperationalError.  The connection keeps its transaction and
\* the PENDING lock it took, which admits no new reader, until it closes.
CommitBusy(p) ==
    /\ conn[p].pc = "commit"
    /\ \E q \in Conns \ {p} : Shared(q)
    /\ conn' = [conn EXCEPT ![p].pc = "close", ![p].err = "OperationalError"]
    /\ pending' = TRUE
    /\ UNCHANGED <<ledger, seq, lock, hist, ret>>

\* cur1 / cur2 = await db.execute("SELECT COALESCE(SUM(amount_cents),0) ...")
\* of pair_net_cents: the sum is read from the table committed now, or the
\* statement fails (integer overflow) and the call raises.
PairExecute(p) ==
    /\ conn[p].pc \in {"execute1", "execute2"}
    /\ ~pending
    /\ LET a == conn[p].args
           s == IF conn[p].pc = "execute1"
                THEN SumDirected(ledger, a.guild_id, a.a_id, a.b_id)
                ELSE SumDirected(ledger, a.guild_id, a.b_id, a.a_id)
       IN  conn' = [conn EXCEPT ![p] =
                      IF s.err # ""
                      THEN [conn[p] EXCEPT !.pc = "close", !.err = s.err]
                      ELSE [conn[p] EXCEPT
                              !.pc = IF conn[p].pc = "execute1" THEN "fetchone1"
                                     ELSE "fetchone2",
                              !.got = Append(@, s.val)]]
    /\ UNCHANGED <<ledger, seq, lock, pending, hist, ret>>

\* s1 = (await cur1.fetchone())[0]; s2 = (await cur2.fetchone())[0] and
\* return s1 - s2.  The SELECT ends and its SHARED lock goes.
PairFetchone(p) ==
    /\ conn[p].pc \in {"fetchone1", "fetchone2"}
    /\ conn' = [conn EXCEPT ![p] =
                  IF conn[p].pc = "fetchone1"
                  THEN [conn[p] EXCEPT !.pc = "execute2"]
                  ELSE [conn[p] EXCEPT !.pc = "close",
                                       !.val = Net(conn[p].got[1], conn[p].got[2])]]
    /\ UNCHANGED <<ledger, seq, lock, pending, hist, ret>>

\* cur = await db.execute(q, ...) of top_counterparties: the groups are
\* summed and sorted before the first row is there to fetch, or the
\* statement fails (integer overflow) and the call raises.
TopExecute(p) ==
    /\ conn[p].pc = "execute"
    /\ conn[p].op = "top_counterparties"
    /\ ~pending
    /\ LET a == conn[p].args
       IN  \E r \in top_counterparties_results(ledger, a.guild_id, a.me_id, a.limit) :
             conn' = [conn EXCEPT ![p] =
                        IF r.err # ""
                        THEN [conn[p] EXCEPT !.pc = "close", !.err = r.err]
                        ELSE [conn[p] EXCEPT !.pc = "fetchall",
                                             !.got = <<r.val>>]]
    /\ UNCHANGED <<ledger, seq, lock, pending, hist, ret>>

\* cur = await db.execute("SELECT ... ORDER BY id DESC LIMIT ?") of
\* recent_entries.
RecentExecute(p) ==
    /\ conn[p].pc = "execute"
    /\ conn[p].op = "recent_entries"
    /\ ~pending
    /\ LET a == conn[p].args
       IN  conn' = [conn EXCEPT
                      ![p].pc = "fetchall",
                      ![p].got = <<recent_entries_result(ledger, a.guild_id,
                                                         a.a_id, a.b_id, a.limit)>>]
    /\ UNCHANGED <<ledger, seq, lock, pending, hist, ret>>

\* A reader's execute while a connection holds the PENDING lock for the busy
\* timeout: OperationalError.
ExecuteBusy(p) ==
    /\ conn[p].pc \in {"execute1", "execute2", "execute"}
    /\ pending
    /\ conn' = [conn EXCEPT ![p].pc = "close", ![p].err = "OperationalError"]
    /\ UNCHANGED <<ledger, seq, lock, pending, hist, ret>>

\* rows = await cur.fetchall(); return [(r[0], r[1]) for r in rows] /
\* return rows.
Fetchall(p) ==
    /\ conn[p].pc = "fetchall"
    /\ conn' = [conn EXCEPT ![p].pc = "close", ![p].val = conn[p].got[1]]
    /\ UNCHANGED <<ledger, seq, lock, pending, hist, ret>>

\* The end of `async with aiosqlite.connect(...)`: the connection closes,
\* a transaction left open rolls back and its locks go; the call returns
\* val or raises err.  A handler that is returned an id goes on to its
\* reply; it catches none of OverflowError, IntegrityError and
\* OperationalError.
Close(p) ==
    /\ conn[p].pc = "close"
    /\ conn' = [conn EXCEPT ![p] =
                  IF conn[p].cmd # <<>> /\ conn[p].err = ""
                  THEN [conn[p] EXCEPT !.pc = "send_message"]
                  ELSE IdleConn]
    /\ lock' = IF lock = p THEN NoConn ELSE lock
    /\ pending' = IF lock = p THEN FALSE ELSE pending
    /\ UNCHANGED <<ledger, seq, hist, ret>>

\* await interaction.response.send_message(...): the handler has replied,
\* with the id and the amount or with the text of the ValueError it caught.
SendMessage(p) ==
    /\ conn[p].pc = "send_message"
    /\ conn' = [conn EXCEPT ![p] = IdleConn]
    /\ UNCHANGED <<ledger, seq, lock, pending, hist, ret>>

\* The exception of a call that opened no connection has reached its caller.
Raised(p) ==
    /\ conn[p].pc = "raised"
    /\ conn' = [conn EXCEPT ![p] = IdleConn]
    /\ UNCHANGED <<ledger, seq, lock, pending, hist, ret>>

\* The awaits of a transaction, those of pop_last_entry in its transaction
\* and those of pair_net_cents.
TransactionSteps(p) ==
    \/ Connect(p)
    \/ BeginImmediate(p)
    \/ BeginBusy(p)
    \/ Commit(p)
    \/ CommitBusy(p)
    \/ Close(p)

PopSteps(p) == PopExecute(p) \/ PopFetchone(p) \/ Rollback(p) \/ Delete(p)

PairSteps(p) == PairExecute(p) \/ PairFetchone(p) \/ ExecuteBusy(p)

----------------------------------------------------------------------------
(* /owe and /paid *)

\* The amounts typed to /owe and /paid: 50.00, 0.50, zero, a malformed one
\* and 92233720368547758.08, whose cents are 2^63.
OweAmounts ==
    {<<53, 48>>, <<32, 48, 44, 53>>, <<48, 46, 48, 48>>,
     <<53, 46, 49, 50, 51>>,
     <<57, 50, 50, 51, 51, 55, 50, 48, 51, 54, 56, 53, 52, 55, 55, 53, 56, 46,
       48, 56>>}

\* cents = await parse_amount_to_cents(amount) and, for the reply,
\* f"{cents/100:.2f}", of each amount typed.
Parsed ==
    [amount \in OweAmounts |->
        LET p == parse_amount_to_cents_result(amount)
        IN  [err |-> p.err, val |-> p.val,
             text |-> IF p.err = "" THEN FormatCents(p.val[1]).val ELSE <<>>]]

\* The cents add_entry gets when the parse of the amount returns r, a
\* Python int; no call of add_entry is made when it raises.
CentsOf(r) == IF r.err = "" THEN [neg |-> FALSE, abs |-> r.val[1]] ELSE PyInt(0)

\* The handler of task p up to the first await at which it is suspended.
\* i is the interaction [guild_id, channel_id, user], r the outcome of
\* parse_amount_to_cents(amount), a the arguments add_entry gets when the
\* parse returns.  parse_amount_to_cents awaits nothing: when it raises
\* ValueError, or when add_entry's guard does, the error is caught and
\* answered with its text and no connection is opened; when it raises
\* OverflowError the handler does not catch it and ends there, with no
\* reply.  Otherwise the handler is suspended in add_entry; when that
\* returns, the reply prints the amount and the id, and when it raises
\* OverflowError, IntegrityError or OperationalError the handler does not
\* catch it.
Handle(p, op, i, user, amount, note, r, a) ==
    /\ ~Busy(p)
    /\ LET cmd == [op |-> op,
                   args |-> [guild_id |-> i.guild_id, channel_id |-> i.channel_id,
                             actor |-> i.user, user |-> user, amount |-> amount,
                             note |-> note],
                   text |-> r.text]
           c == IF r.err = "OverflowError"
                THEN [RaisedCall(op, a, TRUE, r.err) EXCEPT !.cmd = <<cmd>>]
                ELSE IF r.err # ""
                THEN [RaisedCall(op, a, TRUE, r.err)
                        EXCEPT !.cmd = <<cmd>>, !.pc = "send_message"]
                ELSE IF SelfReferential(a.creditor_id, a.debtor_id)
                THEN [RaisedCall("add_entry", a, TRUE, "ValueError")
                        EXCEPT !.cmd = <<cmd>>, !.pc = "send_message"]
                ELSE [NewCall("add_entry", a, TRUE) EXCEPT !.cmd = <<cmd>>]
       IN  /\ conn' = [conn EXCEPT ![p] = IF c.pc = "raised" THEN IdleConn ELSE c]
           /\ IF c.pc \in {"send_message", "raised"}
              THEN Written(p, c) ELSE hist' = hist
    /\ UNCHANGED <<ledger, seq, lock, pending, ret>>

\* /owe: the member named is the creditor, the caller the debtor.
OweEntry(i, user, cents, note) ==
    [guild_id |-> i.guild_id, channel_id |-> i.channel_id,
     creditor_id |-> user, debtor_id |-> i.user, amount_cents |-> cents,
     currency |-> DEFAULT_CCY, kind |-> "debt", note |-> note,
     created_by |-> i.user]

owe(p, i, user, amount, note) ==
    Handle(p, "owe", i, user, amount, note, Parsed[amount],
           OweEntry(i, user, CentsOf(Parsed[amount]), note))

\* A payment recorded in the direction of a debt.
PaidEntry_AsDebt(i, user, cents, note) ==
    [OweEntry(i, user, cents, note) EXCEPT !.kind = "payment"]

\* /paid: the caller is the creditor, the member named the debtor;
\* note=note or 'payment'.
PaidEntry(i, user, cents, note) ==
    [guild_id |-> i.guild_id, channel_id |-> i.channel_id,
     creditor_id |-> i.user, debtor_id |-> user, amount_cents |-> cents,
     currency |-> DEFAULT_CCY, kind |-> "payment",
     note |-> IF note \in {NoneStr, ""} THEN "payment" ELSE note,
     created_by |-> i.user]

paid(p, i, user, amount, note) ==
    Handle(p, "paid", i, user, amount, note, Parsed[amount],
           PaidEntry(i, user, CentsOf(Parsed[amount]), note))

----------------------------------------------------------------------------
(* The specifications.  Each starts with the table empty and no call under *)
(* way, and lets two tasks make one call after the other, each call        *)
(* suspended at its awaits while the other task runs.  They differ in the  *)
(* calls made.  In each, both tasks write and a task reads, so that every  *)
(* await that can raise OperationalError does.                             *)

Guilds == {1, 2}
Actors == {1, 2}
Users == {1, 2, 3}

Init ==
    /\ ledger = {}
    /\ seq = 0
    /\ lock = NoConn
    /\ pending = FALSE
    /\ conn = [p \in Conns |-> IdleConn]
    /\ hist = <<>>
    /\ ret = NoCall

\* The calls of add_entry under way that may yet store a row.
Adding ==
    Cardinality({p \in Conns : /\ Busy(p)
                               /\ conn[p].op = "add_entry"
                               /\ conn[p].pc \notin {"close", "raised", "send_message"}})

\* The calls written down and the calls under way that may yet be.
CallsMade ==
    Len(hist) + Cardinality({p \in Conns : /\ Busy(p)
                                           /\ conn[p].log
                                           /\ conn[p].op # "pair_net_cents"
                                           /\ conn[p].pc \notin {"close", "raised", "send_message"}})

\* add_entry's arguments as /owe passes them (by = db) or as /paid does.
Entry(g, c, cr, db, amt, by) ==
    [guild_id |-> g, channel_id |-> c, creditor_id |-> cr, debtor_id |-> db,
     amount_cents |-> PyInt(amt), currency |-> DEFAULT_CCY,
     kind |-> IF by = db THEN "debt" ELSE "payment",
     note |-> IF by = db THEN "" ELSE "payment",
     created_by |-> by]

----------------------------------------------------------------------------
(* Spec: the two writers in two guilds, two channels and by two actors.    *)

\* The calls of add_entry that Spec makes: member 1 owing member 2 in guild
\* 1, channel 1, and the same in another channel, in another guild and
\* recorded by the other actor; a second amount, a call with creditor =
\* debtor and the amounts that are not positive.
LedgerCalls ==
    {Entry(1, 1, 2, 1, 5000, 1), Entry(1, 2, 2, 1, 5000, 1),
     Entry(2, 1, 2, 1, 5000, 1), Entry(1, 1, 2, 1, 5000, 2),
     Entry(1, 1, 2, 1, 2000, 1), Entry(1, 1, 1, 1, 5000, 1),
     Entry(1, 1, 2, 1, 0, 1), Entry(1, 1, 2, 1, -100, 1)}

\* The filters pop_last_entry is called with.
LedgerFilters == {<<1, 1, 1>>, <<1, 2, 1>>, <<2, 1, 1>>, <<1, 1, 2>>}

AddEntry(p) ==
    /\ seq + Adding < MaxId
    /\ \E a \in IF p = 1 THEN LedgerCalls ELSE {Entry(1, 1, 2, 1, 5000, 2)} :
         add_entry(p, a, FALSE)

PopLastEntry(p) ==
    /\ p = 1
    /\ \E f \in LedgerFilters : pop_last_entry(p, f[1], f[2], f[3], FALSE)

PairNetCents(p) ==
    /\ p = 2
    /\ pair_net_cents(p, 1, 1, 2, FALSE)

Next ==
    \E p \in Conns :
        \/ AddEntry(p)
        \/ PopLastEntry(p)
        \/ PairNetCents(p)
        \/ Raised(p)
        \/ TransactionSteps(p)
        \/ Insert(p)
        \/ PopSteps(p)
        \/ PairSteps(p)

Spec == Init /\ [][Next]_vars

----------------------------------------------------------------------------
(* SpecBalance: the two balance queries in guilds of three members, with   *)
(* the writers.                                                            *)

\* The default of top_counterparties' limit, and the limit /balance passes.
DefaultLimit == 8

\* The calls of add_entry that SpecBalance makes, all in channel 1 and as
\* /owe makes them: in guild 1 members 2 and 3 owing member 1 5000 each and
\* member 1 owing member 2 5000 and 2000; in guild 2 member 2 owing member 1
\* 5000.
BalanceCalls ==
    {Entry(1, 1, 1, 2, 5000, 2), Entry(1, 1, 1, 3, 5000, 3),
     Entry(1, 1, 2, 1, 5000, 1), Entry(1, 1, 2, 1, 2000, 1),
     Entry(2, 1, 1, 2, 5000, 2)}

\* <<guild, a, b>> of the calls of pair_net_cents.
BalancePairs == {<<1, 1, 2>>, <<1, 2, 1>>, <<1, 1, 3>>, <<2, 1, 2>>}

\* <<guild, me, limit>> of the calls of top_counterparties.
BalanceTops == {<<1, 1, DefaultLimit>>, <<1, 1, 1>>, <<1, 2, DefaultLimit>>,
                <<2, 1, DefaultLimit>>, <<1, 1, 0>>}

BalAddEntry(p) ==
    /\ seq + Adding < MaxId
    /\ \E a \in IF p = 1 THEN BalanceCalls ELSE {Entry(1, 1, 1, 2, 5000, 2)} :
         add_entry(p, a, FALSE)

BalPopLastEntry(p) ==
    \E by \in IF p = 1 THEN {1} ELSE {2} : pop_last_entry(p, 1, 1, by, FALSE)

BalPairNetCents(p) ==
    /\ p = 1
    /\ \E a \in BalancePairs : pair_net_cents(p, a[1], a[2], a[3], TRUE)

BalTopCounterparties(p) ==
    /\ p = 1
    /\ \E a \in BalanceTops : top_counterparties(p, a[1], a[2], a[3])

NextBalance ==
    \E p \in Conns :
        \/ BalAddEntry(p)
        \/ BalPopLastEntry(p)
        \/ BalPairNetCents(p)
        \/ BalTopCounterparties(p)
        \/ TransactionSteps(p)
        \/ Insert(p)
        \/ PopSteps(p)
        \/ PairSteps(p)
        \/ TopExecute(p)
        \/ Fetchall(p)

SpecBalance == Init /\ [][NextBalance]_vars

----------------------------------------------------------------------------
(* SpecGuilds: the writers and the three readers in two guilds whose       *)
(* members are the same users.                                             *)

\* The calls of add_entry that SpecGuilds makes, all in channel 1: in either
\* guild /owe between members 1 and 2 both ways; in guild 1 a call with
\* creditor = debtor and an amount of zero.
GuildCalls ==
    {Entry(1, 1, 1, 2, 5000, 2), Entry(1, 1, 2, 1, 5000, 1),
     Entry(2, 1, 1, 2, 5000, 2), Entry(2, 1, 2, 1, 2000, 1),
     Entry(1, 1, 1, 1, 5000, 1), Entry(1, 1, 1, 2, 0, 2)}

\* The limits recent_entries is called with.
RecentLimits == {1, 10}

GuildAddEntry(p) ==
    /\ seq + Adding < MaxId
    /\ \E a \in IF p = 1 THEN GuildCalls ELSE {Entry(2, 1, 1, 2, 5000, 2)} :
         add_entry(p, a, FALSE)

GuildPopLastEntry(p) ==
    /\ p = 1
    /\ \E g \in Guilds, by \in Actors : pop_last_entry(p, g, 1, by, FALSE)

GuildPairNetCents(p) ==
    /\ p = 2
    /\ \E g \in Guilds : pair_net_cents(p, g, 1, 2, FALSE)

GuildTopCounterparties(p) ==
    /\ p = 2
    /\ \E g \in Guilds : top_counterparties(p, g, 1, DefaultLimit)

GuildRecentEntries(p) ==
    /\ p = 2
    /\ \E g \in Guilds, b \in {NoUser, 2}, limit \in RecentLimits :
         recent_entries(p, g, 1, b, limit)

NextGuilds ==
    \E p \in Conns :
        \/ GuildAddEntry(p)
        \/ GuildPopLastEntry(p)
        \/ GuildPairNetCents(p)
        \/ GuildTopCounterparties(p)
        \/ GuildRecentEntries(p)
        \/ Raised(p)
        \/ TransactionSteps(p)
        \/ Insert(p)
        \/ PopSteps(p)
        \/ PairSteps(p)
        \/ TopExecute(p)
        \/ RecentExecute(p)
        \/ Fetchall(p)

SpecGuilds == Init /\ [][NextGuilds]_vars

---------------------------------------------------------------------------------------------------------------------------------------------------
(* SpecParse: parse_amount_to_cents applied to an amount string, and the   *)
(* conversion f"{cents/100:.2f}" of the replies applied to the cents it    *)
(* returned.  Neither awaits anything nor reads the table: each is one     *)
(* step that leaves the table and the calls under way alone.  (The         *)
(* handlers that call them are SpecOwe's.)                                 *)

\* The length of the amounts typed, one character at a time.
MaxLen == 4

\* The characters typed: the digits 0 and 5 and the Arabic-Indic digit
\* three, both separators, a sign, a blank, a no-break space and a letter.
AmountChars == {48, 53, 1635, 46, 44, 45, 32, 160, 97}

\* Amounts of fourteen integer digits, where a float's spacing exceeds a cent.
LargeAmounts ==
    {<<57, 48, 48, 48, 48, 48, 48, 48, 48, 48, 48, 48, 48, d1, 46, d2, d3>> :
        d1 \in {48, 57}, d2 \in {48, 49, 53}, d3 \in {48, 49, 53}}

\* An amount of 307 nines, whose hundredfold is no finite float.
HugeAmount == [i \in 1..307 |-> 57]

\* Longer amounts of the usual kind: "abc", "5.123", "120.50",
\* " 120,5<tab>", "007.29", "1234567.89", "0.29", "1.15", "19,99", "5<CR>",
\* "<FF>50", <Arabic-Indic 12.5> and <fullwidth 50><ideographic space>.
SampleAmounts ==
    {<<97, 98, 99>>, <<53, 46, 49, 50, 51>>, <<49, 50, 48, 46, 53, 48>>,
     <<32, 49, 50, 48, 44, 53, 9>>, <<48, 48, 55, 46, 50, 57>>,
     <<49, 50, 51, 52, 53, 54, 55, 46, 56, 57>>, <<48, 46, 50, 57>>,
     <<49, 46, 49, 53>>, <<49, 57, 44, 57, 57>>, <<53, 13>>, <<12, 53, 48>>,
     <<1633, 1634, 46, 1637>>, <<65301, 65296, 12288>>, HugeAmount}

AmountStrings ==
    UNION {[1..n -> AmountChars] : n \in 0..MaxLen}
    \cup SampleAmounts \cup LargeAmounts

\* parse_amount_to_cents is applied to one of the amount strings.
ParseAmount ==
    /\ ret = NoCall
    /\ \E amount \in AmountStrings : parse_amount_to_cents(amount)
    /\ UNCHANGED <<lock, pending, conn, hist>>

\* f"{cents/100:.2f}" is applied to the cents returned.
FormatAmount ==
    /\ ret.op = "parse_amount_to_cents"
    /\ ret.err = ""
    /\ LET o == FormatCents(ret.val[1])
       IN  ret' = [op |-> "format", args |-> ret.args, cents |-> ret.val[1],
                   err |-> o.err, val |-> o.val]
    /\ UNCHANGED <<ledger, seq, lock, pending, conn, hist>>

NextParse == ParseAmount \/ FormatAmount

SpecParse == Init /\ [][NextParse]_vars

-----
(* SpecUndo: the two writers in one channel, with their calls written down *)
(* in hist in the order they took effect.                                  *)

\* The calls of add_entry that SpecUndo makes: /owe by either actor.
UndoCalls ==
    {Entry(1, 1, IF by = 1 THEN 2 ELSE 1, by, 5000, by) : by \in Actors}

UndoAddEntry(p) ==
    /\ p = 1
    /\ CallsMade < MaxOps
    /\ \E a \in UndoCalls : add_entry(p, a, TRUE)

UndoPopLastEntry(p) ==
    /\ CallsMade < MaxOps
    /\ \E by \in IF p = 1 THEN Actors ELSE {1} : pop_last_entry(p, 1, 1, by, TRUE)

UndoPairNetCents(p) ==
    /\ p = 2
    /\ pair_net_cents(p, 1, 1, 2, FALSE)

NextUndo ==
    \E p \in Conns :
        \/ UndoAddEntry(p)
        \/ UndoPopLastEntry(p)
        \/ UndoPairNetCents(p)
        \/ TransactionSteps(p)
        \/ Insert(p)
        \/ PopSteps(p)
        \/ PairSteps(p)

SpecUndo == Init /\ [][NextUndo]_vars

----------------------------------------------------------------------------
(* SpecOwe: /owe and /paid in one channel, with the commands written down  *)
(* in hist in the order they took effect.                                  *)

\* The commands handled.
MaxCmds == 3

\* <<caller, member named, amount>> of the commands: member 1 naming member
\* 2 and naming themselves with every amount, member 2 naming member 1.
OweCalls ==
    {<<1, user, amount>> : user \in {1, 2}, amount \in OweAmounts}
    \cup {<<2, 1, <<53, 48>>>>}

OweCmd(p) ==
    /\ CallsMade < MaxCmds
    /\ seq + Adding < MaxId
    /\ \E c \in IF p = 1 THEN OweCalls ELSE {<<2, 1, <<53, 48>>>>} :
         owe(p, [guild_id |-> 1, channel_id |-> 1, user |-> c[1]], c[2], c[3],
             NoneStr)

PaidCmd(p) ==
    /\ p = 1
    /\ CallsMade < MaxCmds
    /\ seq + Adding < MaxId
    /\ \E c \in OweCalls :
         paid(p, [guild_id |-> 1, channel_id |-> 1, user |-> c[1]], c[2], c[3],
              NoneStr)

OwePairNetCents(p) ==
    /\ p = 2
    /\ pair_net_cents(p, 1, 1, 2, FALSE)

NextOwe ==
    \E p \in Conns :
        \/ OweCmd(p)
        \/ PaidCmd(p)
        \/ OwePairNetCents(p)
        \/ SendMessage(p)
        \/ TransactionSteps(p)
        \/ Insert(p)
        \/ PairSteps(p)

SpecOwe == Init /\ [][NextOwe]_vars

----------------------------------------------------------------------------
(* SpecConc: the two writers called by either task in one channel, with    *)
(* the calls written down in hist in the order they took effect.           *)

\* The calls of add_entry that SpecConc makes: /owe by either actor, a call
\* with creditor = debtor, and a call with an amount that is not positive.
ConcCalls ==
    {Entry(1, 1, 2, 1, 5000, 1), Entry(1, 1, 1, 2, 5000, 2),
     Entry(1, 1, 1, 1, 5000, 1), Entry(1, 1, 2, 1, 0, 1)}

ConcAddEntry(p) ==
    /\ CallsMade < MaxCalls
    /\ seq + Adding < MaxId
    /\ \E a \in ConcCalls : add_entry(p, a, TRUE)

ConcPopLastEntry(p) ==
    /\ CallsMade < MaxCalls
    /\ \E by \in Actors : pop_last_entry(p, 1, 1, by, TRUE)

ConcPairNetCents(p) ==
    /\ p = 1
    /\ pair_net_cents(p, 1, 1, 2, FALSE)

NextConc ==
    \E p \in Conns :
        \/ ConcAddEntry(p)
        \/ ConcPopLastEntry(p)
        \/ ConcPairNetCents(p)
        \/ Raised(p)
        \/ TransactionSteps(p)
        \/ Insert(p)
        \/ PopSteps(p)
        \/ PairSteps(p)

SpecConc == Init /\ [][NextConc]_vars

----------------------------------------------------------------------------
(* SpecRead: pair_net_cents called while the other task writes.            *)

\* The calls of add_entry that SpecRead makes.
ReadCalls == {Entry(1, 1, 1, 2, 5000, 2), Entry(1, 1, 2, 1, 2000, 1)}

ReadAddEntry(p) ==
    /\ seq + Adding < MaxId
    /\ \E a \in IF p = 2 THEN ReadCalls ELSE {Entry(1, 1, 1, 2, 5000, 2)} :
         add_entry(p, a, FALSE)

ReadPopLastEntry(p) ==
    /\ p = 2
    /\ \E by \in Actors : pop_last_entry(p, 1, 1, by, FALSE)

ReadPairNetCents(p) ==
    pair_net_cents(p, 1, p, 3 - p, TRUE)

NextRead ==
    \E p \in Conns :
        \/ ReadAddEntry(p)
        \/ ReadPopLastEntry(p)
        \/ ReadPairNetCents(p)
        \/ TransactionSteps(p)
        \/ Insert(p)
        \/ PopSteps(p)
        \/ PairSteps(p)

SpecRead == Init /\ [][NextRead]_vars

----------------------------------------------------------------------------
(* The claims.  Their statements are written from the rows of the table,   *)
(* not with the definitions above.  A call that the database refuses       *)
(* (OperationalError) has no effect and returns nothing; the claims about  *)
(* what a call does and returns speak of the calls that are not refused.   *)

RECURSIVE TotalOf(_)
TotalOf(S) ==
    IF S = {} THEN 0
    ELSE LET r == CHOOSE x \in S : TRUE
         IN  r.amount_cents + TotalOf(S \ {r})

\* |n|
Magnitude(n) == IF n < 0 THEN -n ELSE n

\* The rows of guild g in the table T in which A is the creditor and B the
\* debtor.
DirectedIn(T, g, A, B) ==
    {r \in T : r.guild_id = g /\ r.creditor_id = A /\ r.debtor_id = B}

\* sum(amount where creditor=A, debtor=B) - sum(amount where creditor=B, debtor=A)
\* over the rows of guild g in the table T.
NetIn(T, g, A, B) == TotalOf(DirectedIn(T, g, A, B)) - TotalOf(DirectedIn(T, g, B, A))

NetOf(g, A, B) == NetIn(ledger, g, A, B)

\* The rows the filter of pop_last_entry's caller names.
RowsOf(L, f) ==
    {r \in L : /\ r.guild_id = f.guild_id
               /\ r.channel_id = f.channel_id
               /\ r.created_by = f.created_by}

\* The greatest-id row of L that the filter f names is r.
GreatestOf(L, f, r) ==
    /\ r \in RowsOf(L, f)
    /\ \A x \in RowsOf(L, f) : x.id <= r.id

\* The values pop_last_entry returns of the row r.
ValuesOf(r) ==
    [id |-> r.id, creditor_id |-> r.creditor_id, debtor_id |-> r.debtor_id,
     amount_cents |-> r.amount_cents, currency |-> r.currency,
     kind |-> r.kind, note |-> r.note]

\* Task p's call of op has its value and is about to return it.
Returning(p, op) ==
    /\ conn[p].pc = "close"
    /\ conn[p].op = op
    /\ conn[p].err = ""

\* Task p takes this step, in a call of op.
StepOf(p, op) ==
    /\ conn'[p] # conn[p]
    /\ \/ Busy(p) /\ conn[p].op = op
       \/ ~Busy(p) /\ conn'[p].op = op

\* The table after the i-th call of the history took effect.
After(i) == IF i = Len(hist) THEN ledger ELSE hist[i + 1].before

\* The successful add_entry calls of the history.
AddsOf(h) == {i \in 1..Len(h) : h[i].call.op = "add_entry" /\ h[i].call.err = ""}

\* C1: whatever add_entry and pop_last_entry calls came before, the value
\* pair_net_cents(guild, A, B) returns from a table that no call changes
\* meanwhile is the sum of the amounts of the stored rows of the guild with
\* creditor A and debtor B minus the sum of those with creditor B and debtor
\* A (0 for a side without rows); with the rows (A, B, 5000) and
\* (B, A, 2000) it is 3000.
C1_PairNetIsDirectedDifference ==
    \A p \in Conns :
        (Returning(p, "pair_net_cents") /\ conn[p].seen = {ledger}) =>
            LET g == conn[p].args.guild_id
                A == conn[p].args.a_id
                B == conn[p].args.b_id
                between == DirectedIn(ledger, g, A, B) \cup DirectedIn(ledger, g, B, A)
            IN  /\ conn[p].val = NetOf(g, A, B)
                /\ (/\ Cardinality(between) = 2
                    /\ {<<r.creditor_id, r.debtor_id, r.amount_cents>> : r \in between}
                         = {<<A, B, 5000>>, <<B, A, 2000>>})
                   => conn[p].val = 3000

\* C1's case: the two rows of the example and a row of another guild.
C1_Witness ==
    \E p \in Conns :
        /\ Returning(p, "pair_net_cents")
        /\ conn[p].seen = {ledger}
        /\ conn[p].val = 3000
        /\ Cardinality(DirectedIn(ledger, conn[p].args.guild_id,
                                  conn[p].args.a_id, conn[p].args.b_id)) = 1
        /\ Cardinality(DirectedIn(ledger, conn[p].args.guild_id,
                                  conn[p].args.b_id, conn[p].args.a_id)) = 1
        /\ \E r \in ledger : r.guild_id # conn[p].args.guild_id

\* Two calls of pair_net_cents, for (A, B) and for (B, A) in one guild, have
\* read the same table, which no call changed meanwhile, and are about to
\* return.
OppositeReads(p, q) ==
    /\ Returning(p, "pair_net_cents")
    /\ Returning(q, "pair_net_cents")
    /\ conn[p].args.guild_id = conn[q].args.guild_id
    /\ conn[p].args.a_id = conn[q].args.b_id
    /\ conn[p].args.b_id = conn[q].args.a_id
    /\ conn[p].seen = {ledger}
    /\ conn[q].seen = {ledger}

\* C2: with no write between the two queries, the value
\* pair_net_cents(guild, A, B) returns is the negation of the value
\* pair_net_cents(guild, B, A) returns.
C2_PairNetAntisymmetric ==
    \A p, q \in Conns : OppositeReads(p, q) => conn[p].val = -conn[q].val

\* C2's case: a pair with rows in both directions and a net that is not zero.
C2_Witness ==
    \E p, q \in Conns :
        /\ OppositeReads(p, q)
        /\ conn[p].val < 0
        /\ DirectedIn(ledger, conn[p].args.guild_id, conn[p].args.a_id,
                      conn[p].args.b_id) # {}
        /\ DirectedIn(ledger, conn[p].args.guild_id, conn[p].args.b_id,
                      conn[p].args.a_id) # {}

\* C3: add_entry called with creditor_id = debtor_id fails with an error at
\* once, opens no connection and leaves the table as it was; so no stored
\* row ever has creditor_id = debtor_id.
C3_SelfReferentialRejected ==
    /\ [](\A r \in ledger : r.creditor_id # r.debtor_id)
    /\ [][\A p \in Conns :
            /\ (/\ StepOf(p, "add_entry")
                /\ ~Busy(p)
                /\ conn'[p].args.creditor_id = conn'[p].args.debtor_id)
                 => /\ conn'[p].pc = "raised"
                    /\ conn'[p].err = "ValueError"
                    /\ conn'[p].val = <<>>
                    /\ ledger' = ledger
                    /\ seq' = seq
            /\ (conn[p].pc = "raised" /\ conn'[p] # conn[p])
                 => /\ conn'[p] = IdleConn
                    /\ ledger' = ledger
                    /\ seq' = seq]_vars

\* C3's case: a refused self-referential call on a table that has rows.
C3_Witness ==
    \E p \in Conns :
        /\ conn[p].pc = "raised"
        /\ conn[p].op = "add_entry"
        /\ conn[p].args.creditor_id = conn[p].args.debtor_id
        /\ conn[p].err = "ValueError"
        /\ ledger # {}

\* amount_cents > 0, of the Python int a call is given.
IsPositive(x) == ~x.neg /\ x.abs # <<0>>

\* C4: every stored row has amount_cents > 0: a call of add_entry with
\* amount_cents <= 0 never commits, ends with an error and no id, and leaves
\* the table as it was at every step; and no step changes the amount of a
\* stored row.
C4_AmountsPositive ==
    /\ [](\A r \in ledger : r.amount_cents > 0)
    /\ [](\A p \in Conns :
            (/\ Busy(p)
             /\ conn[p].op = "add_entry"
             /\ ~IsPositive(conn[p].args.amount_cents))
              => /\ conn[p].pc # "commit"
                 /\ conn[p].val = <<>>
                 /\ conn[p].pc = "close" => conn[p].err # "")
    /\ [][/\ \A p \in Conns :
               (/\ StepOf(p, "add_entry")
                /\ Busy(p)
                /\ ~IsPositive(conn[p].args.amount_cents)) => ledger' = ledger
          /\ \A r \in ledger : \A q \in ledger' :
               q.id = r.id => q.amount_cents = r.amount_cents]_vars

\* C4's case: a refused call with an amount that is not positive, made with
\* creditor # debtor on a table that has rows.
C4_Witness ==
    \E p \in Conns :
        /\ conn[p].pc = "close"
        /\ conn[p].op = "add_entry"
        /\ ~IsPositive(conn[p].args.amount_cents)
        /\ conn[p].args.creditor_id # conn[p].args.debtor_id
        /\ conn[p].err = "IntegrityError"
        /\ ledger # {}

\* C5: when a row matches (guild_id, channel_id, created_by), pop_last_entry
\* selects the matching row of greatest id, deletes exactly that row and
\* returns the values it had (id, creditor, debtor, amount, currency, kind,
\* note); it deletes no row of another actor, channel or guild, whatever
\* that row's id.
C5_PopDeletesGreatestMatching ==
    [][\A p \in Conns :
         StepOf(p, "pop_last_entry") =>
           /\ (conn[p].pc = "select" /\ RowsOf(ledger, conn[p].args) # {})
                => /\ conn'[p].pc = "fetchone"
                   /\ Len(conn'[p].got) = 1
                   /\ GreatestOf(ledger, conn[p].args, conn'[p].got[1])
           /\ (conn[p].pc = "fetchone" /\ conn[p].got # <<>>)
                => conn'[p].pc = "delete"
           /\ conn[p].pc = "delete" => conn'[p].pc = "commit"
           /\ (conn[p].pc = "commit" /\ conn'[p].err = "")
                => /\ GreatestOf(ledger, conn[p].args, conn[p].got[1])
                   /\ ledger' = ledger \ {conn[p].got[1]}
                   /\ conn'[p].pc = "close"
                   /\ conn'[p].val = <<ValuesOf(conn[p].got[1])>>
           /\ \A q \in ledger \ ledger' : q \in RowsOf(ledger, conn[p].args)]_vars

\* C5's case: a row was popped while rows of greater id remain: one of
\* another actor, and a row of the actor of lesser id.
C5_Witness ==
    \E p \in Conns :
        /\ Returning(p, "pop_last_entry")
        /\ conn[p].val # <<>>
        /\ \E r \in ledger :
             /\ r.id > conn[p].val[1].id
             /\ r.guild_id = conn[p].args.guild_id
             /\ r.channel_id = conn[p].args.channel_id
             /\ r.created_by # conn[p].args.created_by
        /\ \E r \in ledger :
             /\ r.id < conn[p].val[1].id
             /\ r.guild_id = conn[p].args.guild_id
             /\ r.channel_id = conn[p].args.channel_id
             /\ r.created_by = conn[p].args.created_by

\* C6: pop_last_entry called for a (guild, channel, actor) without a
\* matching row selects nothing, rolls back and returns None, raises nothing
\* and leaves the table as it was.
C6_PopNothingToUndo ==
    [][\A p \in Conns :
         StepOf(p, "pop_last_entry") =>
           /\ (conn[p].pc = "select" /\ RowsOf(ledger, conn[p].args) = {})
                => conn'[p].pc = "fetchone" /\ conn'[p].got = <<>>
           /\ (conn[p].pc = "fetchone" /\ conn[p].got = <<>>)
                => conn'[p].pc = "rollback"
           /\ conn[p].pc = "rollback"
                => /\ conn'[p].pc = "close"
                   /\ conn'[p].val = <<>>
                   /\ conn'[p].err = ""
           /\ (Busy(p) /\ conn[p].got = <<>>)
                => ledger' = ledger /\ seq' = seq]_vars

\* C6's case: None is returned although the actor has rows in another
\* channel and the channel has rows of another actor.
C6_Witness ==
    \E p \in Conns :
        /\ Returning(p, "pop_last_entry")
        /\ conn[p].val = <<>>
        /\ \E r \in ledger :
             /\ r.guild_id = conn[p].args.guild_id
             /\ r.channel_id # conn[p].args.channel_id
             /\ r.created_by = conn[p].args.created_by
        /\ \E r \in ledger :
             /\ r.guild_id = conn[p].args.guild_id
             /\ r.channel_id = conn[p].args.channel_id
             /\ r.created_by # conn[p].args.created_by

\* Calls i .. i+2k of hist are k successful add_entry calls of one
\* (guild, channel, actor), the first finding no row of it, followed by k+1
\* pop_last_entry calls of the same (guild, channel, actor).
UndoRun(i, k) ==
    /\ i + 2 * k <= Len(hist)
    /\ \A m \in 0..(k - 1) :
         /\ hist[i + m].call.op = "add_entry"
         /\ hist[i + m].call.err = ""
         /\ hist[i + m].call.args.guild_id = hist[i].call.args.guild_id
         /\ hist[i + m].call.args.channel_id = hist[i].call.args.channel_id
         /\ hist[i + m].call.args.created_by = hist[i].call.args.created_by
    /\ RowsOf(hist[i].before, hist[i].call.args) = {}
    /\ \A m \in 0..k :
         /\ hist[i + k + m].call.op = "pop_last_entry"
         /\ hist[i + k + m].call.args.guild_id = hist[i].call.args.guild_id
         /\ hist[i + k + m].call.args.channel_id = hist[i].call.args.channel_id
         /\ hist[i + k + m].call.args.created_by = hist[i].call.args.created_by

\* C7: after k add_entry calls by an actor in a (guild, channel) that had no
\* row of that actor, k+1 pop_last_entry calls with the same filter return the
\* k inserted rows, latest first, each deleted by the call that returns it,
\* and then None; so after one insert the first undo returns and deletes the
\* inserted row and the second returns None.
C7_UndoRunsBackwards ==
    \A i \in 1..Len(hist) : \A k \in 1..Len(hist) :
        UndoRun(i, k) =>
            /\ \A m \in 0..(k - 1) :
                 LET added == hist[i + k - 1 - m].call
                     popped == hist[i + k + m].call
                 IN  /\ popped.val # <<>>
                     /\ popped.val[1].id = added.val[1]
                     /\ popped.val[1].creditor_id = added.args.creditor_id
                     /\ popped.val[1].debtor_id = added.args.debtor_id
                     /\ popped.val[1].amount_cents = Int64Of(added.args.amount_cents)
                     /\ \E r \in hist[i + k + m].before : r.id = added.val[1]
                     /\ \A r \in After(i + k + m) : r.id # added.val[1]
            /\ hist[i + 2 * k].call.val = <<>>

\* C7's cases: two inserts and three undos; one insert and two undos in a
\* channel where another actor's rows stay, the two undos made by different
\* tasks.
C7_Witness ==
    /\ Len(hist) = 5
    /\ UndoRun(1, 2)
    /\ hist[5].call.val = <<>>

C7_WitnessOne ==
    /\ Len(hist) = 5
    /\ UndoRun(3, 1)
    /\ hist[5].call.val = <<>>
    /\ hist[4].conn # hist[5].conn
    /\ \E r \in ledger : r.channel_id = hist[3].call.args.channel_id

\* The ids of the rows that pop_last_entry calls have deleted.
Retracted ==
    {hist[i].call.val[1].id :
        i \in {j \in 1..Len(hist) :
                 hist[j].call.op = "pop_last_entry" /\ hist[j].call.val # <<>>}}

\* C10: however concurrent add_entry calls interleave, the stored rows are
\* never fewer than the calls that succeeded: the row of each such call is
\* stored, with the values of the call, until a pop_last_entry deletes it,
\* and no two such calls return the same id.
C10_NoLostInserts ==
    /\ \A i \in AddsOf(hist) :
         \/ hist[i].call.val[1] \in Retracted
         \/ \E r \in ledger :
              /\ r.id = hist[i].call.val[1]
              /\ r.creditor_id = hist[i].call.args.creditor_id
              /\ r.debtor_id = hist[i].call.args.debtor_id
              /\ r.amount_cents = Int64Of(hist[i].call.args.amount_cents)
              /\ r.created_by = hist[i].call.args.created_by
    /\ \A i, j \in AddsOf(hist) : i # j => hist[i].call.val[1] # hist[j].call.val[1]
    /\ Cardinality(ledger) + Cardinality(Retracted) >= Cardinality(AddsOf(hist))
    /\ \A r, q \in ledger : r.id = q.id => r = q

\* C10's cases: calls by different tasks have both succeeded while a call
\* was refused the lock; a call has succeeded and the call of the other
\* task, made meanwhile, is inserting.
C10_Witness ==
    /\ Cardinality(AddsOf(hist)) = 2
    /\ Cardinality(ledger) = 2
    /\ \E i, j \in AddsOf(hist) : hist[i].conn # hist[j].conn
    /\ \E p \in Conns :
         /\ conn[p].pc = "close"
         /\ conn[p].op = "add_entry"
         /\ conn[p].err = "OperationalError"

C10_WitnessOverlap ==
    \E p, q \in Conns :
        /\ Returning(p, "add_entry")
        /\ conn[q].pc = "insert"
        /\ Cardinality(AddsOf(hist)) = 2

\* The pop_last_entry calls that have returned a row.
OkPops == {i \in 1..Len(hist) :
             hist[i].call.op = "pop_last_entry" /\ hist[i].call.val # <<>>}

\* C11: however two pop_last_entry calls with the same filter and add_entry
\* calls interleave, no two calls return the same row; from the moment a
\* call's transaction begins until it ends no other call changes the table;
\* the row the call selects is the greatest-id row of its filter in that
\* table, its commit removes exactly that row, and the row it returns is
\* that row, absent from the table.
C11_PopIsAtomic ==
    /\ [](\A i, j \in OkPops :
            i # j => hist[i].call.val[1].id # hist[j].call.val[1].id)
    /\ [][\A p \in Conns :
            /\ (lock = p /\ lock' = p) => ledger' = ledger
            /\ (conn[p].pc = "select" /\ conn'[p].pc = "fetchone"
                /\ conn'[p].got # <<>>)
                 => /\ lock = p
                    /\ GreatestOf(ledger, conn[p].args, conn'[p].got[1])
            /\ (conn[p].pc = "commit" /\ conn[p].op = "pop_last_entry"
                /\ conn'[p].pc = "close" /\ conn'[p].err = "")
                 => /\ lock = p
                    /\ GreatestOf(ledger, conn[p].args, conn[p].got[1])
                    /\ ledger' = ledger \ {conn[p].got[1]}
                    /\ conn'[p].val[1].id = conn[p].got[1].id
                    /\ \A r \in ledger' : r.id # conn'[p].val[1].id]_vars

\* C11's case: two calls with the same filter are in progress; one has
\* committed its delete and not yet returned, the other holds the lock and
\* is about to select in the table without that row.
C11_Witness ==
    \E p, q \in Conns :
        /\ p # q
        /\ Returning(p, "pop_last_entry") /\ conn[p].val # <<>>
        /\ conn[q].pc = "select" /\ conn[q].op = "pop_last_entry"
        /\ conn[p].args = conn[q].args

\* Two calls waited for the lock at once and the one that got it second
\* found nothing left: the first returned the row, the second None.
C11_WitnessNone ==
    \E i, j \in 1..Len(hist) :
        /\ i < j
        /\ hist[i].call.op = "pop_last_entry" /\ hist[i].call.val # <<>>
        /\ hist[j].call.op = "pop_last_entry" /\ hist[j].call.val = <<>>
        /\ hist[j].call.err = ""
        /\ hist[i].call.args = hist[j].call.args
        /\ hist[i].conn # hist[j].conn

\* C12: the value a pair_net_cents call returns is the net of one table that
\* was the committed table at some instant between the call and its return;
\* it never joins a first sum read before a concurrent commit with a second
\* sum read after it into the net of no such table.
C12_PairNetReadsOneTable ==
    \A p \in Conns :
        Returning(p, "pair_net_cents") =>
            \E T \in conn[p].seen :
                conn[p].val = NetIn(T, conn[p].args.guild_id, conn[p].args.a_id,
                                    conn[p].args.b_id)

\* C13: over the whole history of add_entry and pop_last_entry calls, every
\* successful add_entry returns an id greater than the id of every earlier
\* successful add_entry, whether or not that earlier row is still stored; the
\* row a call stores carries the id the call returned, and every other row
\* is stored after a call with the id and values it had before it, so no two
\* stored rows share an id.
C13_IdsIncreaseForever ==
    /\ \A i, j \in AddsOf(hist) :
         i < j => hist[i].call.val[1] < hist[j].call.val[1]
    /\ \A i \in 1..Len(hist) :
         /\ \A r \in After(i) :
              \/ r \in hist[i].before
              \/ /\ i \in AddsOf(hist)
                 /\ r.id = hist[i].call.val[1]
                 /\ \A x \in hist[i].before : x.id # r.id
         /\ \A r \in hist[i].before :
              \/ r \in After(i)
              \/ /\ hist[i].call.op = "pop_last_entry"
                 /\ hist[i].call.val # <<>>
                 /\ hist[i].call.val[1].id = r.id
    /\ \A r1, r2 \in ledger : r1.id = r2.id => r1 = r2

\* C13's case: a row was inserted and deleted, the table holds no row with
\* an id as great as its id, and a later add_entry succeeded.
C13_Witness ==
    \E i, j, k \in 1..Len(hist) :
        /\ i < j /\ j < k
        /\ i \in AddsOf(hist) /\ k \in AddsOf(hist)
        /\ hist[j].call.op = "pop_last_entry"
        /\ hist[j].call.val # <<>>
        /\ hist[j].call.val[1].id = hist[i].call.val[1]
        /\ \A r \in hist[k].before : r.id < hist[i].call.val[1]

\* The k-th call of the history has the guild, channel and actor of the
\* i-th.
SameFilter(i, k) ==
    /\ hist[k].call.args.guild_id = hist[i].call.args.guild_id
    /\ hist[k].call.args.channel_id = hist[i].call.args.channel_id
    /\ hist[k].call.args.created_by = hist[i].call.args.created_by

\* The i-th call is a successful add_entry(..., created_by = X) and the j-th
\* the next call with its guild, channel and actor, a pop_last_entry.
Undoes(i, j) ==
    /\ i \in AddsOf(hist)
    /\ j \in (i + 1)..Len(hist)
    /\ hist[j].call.op = "pop_last_entry"
    /\ SameFilter(i, j)
    /\ \A k \in (i + 1)..(j - 1) : ~SameFilter(i, k)

\* The pop returns the row the add inserted: its id and the values of the
\* call.
PopsInserted(i, j) ==
    LET a == hist[i].call.args
        popped == hist[j].call.val
    IN  /\ popped # <<>>
        /\ popped[1].id = hist[i].call.val[1]
        /\ popped[1].creditor_id = a.creditor_id
        /\ popped[1].debtor_id = a.debtor_id
        /\ popped[1].amount_cents = Int64Of(a.amount_cents)
        /\ popped[1].currency = a.currency
        /\ popped[1].kind = a.kind
        /\ popped[1].note = NoteOrNone(a.note)

\* The table after the j-th call is the table before the i-th, and so is
\* every value of pair_net_cents and every result of top_counterparties.
Restored(i, j) ==
    /\ After(j) = hist[i].before
    /\ \A u, v \in Actors :
         pair_net_cents_result(After(j), hist[i].call.args.guild_id, u, v)
           = pair_net_cents_result(hist[i].before,
                                   hist[i].call.args.guild_id, u, v)
    /\ \A u \in Actors :
         top_counterparties_results(After(j), hist[i].call.args.guild_id, u,
                                    DefaultLimit)
           = top_counterparties_results(hist[i].before,
                                        hist[i].call.args.guild_id, u,
                                        DefaultLimit)

\* C20 as stated: when a successful add_entry(..., created_by = X) is
\* followed, with no write of the same guild, channel and actor between
\* them, by pop_last_entry(guild, channel, X), the pop returns the row just
\* inserted, and the table after the pop is the table before the insert,
\* and so is every value of pair_net_cents and every result of
\* top_counterparties.  (A write of another actor between the two stays.)
C20_AddThenPopRestoresTable ==
    \A i, j \in 1..Len(hist) :
        Undoes(i, j) => PopsInserted(i, j) /\ Restored(i, j)

\* C20, amended: when a successful add_entry(..., created_by = X) is
\* followed, with no write of the same guild, channel and actor between
\* them, by pop_last_entry(guild, channel, X), the pop returns the row just
\* inserted and removes that row and no other, so that the rows of that
\* guild, channel and actor are those before the insert and every other row
\* is as the writes between left it; and when no write at all comes
\* between, the table after the pop is the table before the insert, and so
\* is every value of pair_net_cents and every result of top_counterparties.
C20_AddThenPopRestores ==
    \A i, j \in 1..Len(hist) :
        Undoes(i, j)
        => /\ PopsInserted(i, j)
           /\ \E r \in hist[j].before :
                /\ r.id = hist[i].call.val[1]
                /\ After(j) = hist[j].before \ {r}
           /\ RowsOf(After(j), hist[i].call.args)
                = RowsOf(hist[i].before, hist[i].call.args)
           /\ j = i + 1 => Restored(i, j)

\* C20's cases: the table holds a row; the actor inserts, another actor
\* inserts, and the actor undoes, the other actor's row staying (as
\* stated, the claim fails here); and the actor inserts and undoes at once,
\* the table holding rows of the actor and of another actor.
C20_Witness ==
    \E i \in 2..(Len(hist) - 2) :
        /\ Undoes(i, i + 2)
        /\ i + 1 \in AddsOf(hist)
        /\ hist[i + 2].call.val # <<>>
        /\ hist[i].before # {}
        /\ After(i + 2) # hist[i].before

C20_WitnessAtOnce ==
    \E i \in 2..(Len(hist) - 1) :
        /\ Undoes(i, i + 1)
        /\ Cardinality(RowsOf(hist[i].before, hist[i + 1].call.args)) = 1
        /\ Cardinality(hist[i].before) = 2
        /\ After(i + 1) = hist[i].before
\* The parties with a row with `me` in guild g, and those of net not zero.
CounterpartiesOf(g, me) ==
    {r.debtor_id : r \in {q \in ledger : q.guild_id = g /\ q.creditor_id = me}}
    \cup {r.creditor_id : r \in {q \in ledger : q.guild_id = g /\ q.debtor_id = me}}

Unsettled(g, me) == {u \in CounterpartiesOf(g, me) : NetOf(g, me, u) # 0}

\* Task p's call of top_counterparties executes its SELECT in this step.
TopReads(p) ==
    /\ conn[p].pc = "execute"
    /\ conn[p].op = "top_counterparties"
    /\ conn'[p].pc = "fetchall"

\* C8: top_counterparties(guild, party, limit) returns the rows its SELECT
\* found, at most `limit` pairs (other, net); each net is the pair's net
\* balance in the table read and is not zero, each other party has a row
\* with the party in the guild and is listed once, the pairs are in
\* descending order of |net|, and when at most `limit` counterparties have a
\* net that is not zero all of them are listed; with the rows
\* (U1, U2, 5000) and (U2, U1, 2000) the result for U1 with limit 8 is
\* [(U2, 3000)].
C8_TopCounterparties ==
    [][\A p \in Conns :
         /\ (conn[p].pc = "fetchall" /\ conn[p].op = "top_counterparties"
             /\ conn'[p] # conn[p])
              => /\ conn'[p].pc = "close"
                 /\ conn'[p].err = ""
                 /\ conn'[p].val = conn[p].got[1]
         /\ TopReads(p) =>
              LET g == conn[p].args.guild_id
                  me == conn[p].args.me_id
                  v == conn'[p].got[1]
                  n == Len(v)
                  mine == {r \in ledger :
                              r.guild_id = g /\ (r.creditor_id = me \/ r.debtor_id = me)}
              IN  /\ n <= conn[p].args.limit
                  /\ \A i \in 1..n :
                       /\ v[i][2] = NetOf(g, me, v[i][1])
                       /\ pair_net_cents_result(ledger, g, me, v[i][1])
                            = [err |-> "", val |-> v[i][2]]
                       /\ v[i][2] # 0
                       /\ v[i][1] \in CounterpartiesOf(g, me)
                  /\ \A i, j \in 1..n : i < j =>
                       /\ Magnitude(v[i][2]) >= Magnitude(v[j][2])
                       /\ v[i][1] # v[j][1]
                  /\ Cardinality(Unsettled(g, me)) <= conn[p].args.limit
                       => {v[i][1] : i \in 1..n} = Unsettled(g, me)
                  /\ \A i \in 1..n : \A u \in Unsettled(g, me) \ {v[k][1] : k \in 1..n} :
                       Magnitude(v[i][2]) >= Magnitude(NetOf(g, me, u))
                  /\ (/\ Cardinality(mine) = 2
                      /\ conn[p].args.limit = 8
                      /\ \E u \in Users :
                           {<<r.creditor_id, r.debtor_id, r.amount_cents>> : r \in mine}
                             = {<<me, u, 5000>>, <<u, me, 2000>>})
                     => \E u \in Users : v = << <<u, 3000>> >>]_vars

\* Task p's call of top_counterparties has read its rows from the table as
\* it is now: a SELECT that found rows keeps the table from changing until
\* they are fetched.
TopRead(p) ==
    /\ conn[p].pc = "fetchall"
    /\ conn[p].op = "top_counterparties"
    /\ conn[p].got[1] # <<>>

\* C8's cases: the example; a counterparty left out because its net is zero
\* beside one that is listed; a limit that cuts the list.
C8_Witness ==
    \E p \in Conns :
        /\ Returning(p, "top_counterparties")
        /\ conn[p].args.me_id = 1
        /\ conn[p].args.limit = 8
        /\ conn[p].val = << <<2, 3000>> >>
        /\ \E r \in ledger : r.guild_id # conn[p].args.guild_id

C8_WitnessSettled ==
    \E p \in Conns :
        /\ TopRead(p)
        /\ Len(conn[p].got[1]) = 1
        /\ Cardinality(CounterpartiesOf(conn[p].args.guild_id, conn[p].args.me_id)) = 2
        /\ Cardinality(Unsettled(conn[p].args.guild_id, conn[p].args.me_id)) = 1

C8_WitnessCut ==
    \E p \in Conns :
        /\ TopRead(p)
        /\ Len(conn[p].got[1]) = 1
        /\ conn[p].args.limit = 1
        /\ Cardinality(Unsettled(conn[p].args.guild_id, conn[p].args.me_id)) = 2
        /\ \E u \in Unsettled(conn[p].args.guild_id, conn[p].args.me_id) :
             Magnitude(NetOf(conn[p].args.guild_id, conn[p].args.me_id, u))
               < Magnitude(conn[p].got[1][1][2])

\* C9: of two counterparties of equal |net|, top_counterparties lists the one
\* of lower identifier first and, when the limit cuts between them, keeps the
\* one of lower identifier.
C9_TiesByLowestIdentifier ==
    [][\A p \in Conns :
         TopReads(p) =>
           LET g == conn[p].args.guild_id
               me == conn[p].args.me_id
               v == conn'[p].got[1]
               n == Len(v)
           IN  /\ \A i, j \in 1..n :
                    (i < j /\ Magnitude(v[i][2]) = Magnitude(v[j][2]))
                      => v[i][1] < v[j][1]
               /\ \A i \in 1..n : \A u \in Unsettled(g, me) \ {v[k][1] : k \in 1..n} :
                    Magnitude(NetOf(g, me, u)) = Magnitude(v[i][2]) => v[i][1] < u]_vars

\* Task p's transaction commits in this step.
Commits(p) ==
    /\ conn[p].pc = "commit"
    /\ conn'[p].pc = "close"
    /\ conn'[p].err = ""

\* C14: a call of add_entry or pop_last_entry in one guild changes the table
\* only when it commits, and then leaves, for every other guild, every pair
\* of parties and every limit, the value of pair_net_cents, the results of
\* top_counterparties and the rows of recent_entries (with and without a
\* counterparty) as they were.
C14_GuildsIsolated ==
    [][/\ ledger' # ledger => \E p \in Conns : Commits(p)
       /\ \A p \in Conns :
            Commits(p) =>
              \A g \in Guilds \ {conn[p].args.guild_id} :
                \A a \in Users :
                  /\ \A b \in Users :
                       pair_net_cents_result(ledger', g, a, b)
                         = pair_net_cents_result(ledger, g, a, b)
                  /\ \A limit \in {0, 1, 2, DefaultLimit} :
                       top_counterparties_results(ledger', g, a, limit)
                         = top_counterparties_results(ledger, g, a, limit)
                  /\ \A b \in Users \cup {NoUser} : \A limit \in {1, 2, 10} :
                       recent_entries_result(ledger', g, a, b, limit)
                         = recent_entries_result(ledger, g, a, b, limit)]_vars

\* C14's cases: a row was inserted in one guild, and a row deleted in one
\* guild, while the other guild holds rows of the same users and the other
\* task has read them.
C14_Witness ==
    \E p, q \in Conns :
        /\ Returning(p, "add_entry")
        /\ conn[p].val # <<>>
        /\ \E r \in ledger :
             /\ r.guild_id # conn[p].args.guild_id
             /\ r.creditor_id = conn[p].args.creditor_id
             /\ r.debtor_id = conn[p].args.debtor_id
        /\ Returning(q, "recent_entries")
        /\ conn[q].args.guild_id # conn[p].args.guild_id
        /\ conn[q].val # <<>>

C14_WitnessPop ==
    \E p \in Conns :
        /\ Returning(p, "pop_last_entry")
        /\ conn[p].val # <<>>
        /\ \E r \in ledger :
             /\ r.guild_id # conn[p].args.guild_id
             /\ r.creditor_id = conn[p].val[1].creditor_id
             /\ r.debtor_id = conn[p].val[1].debtor_id

\* C18: no step changes a stored row in place; a call of add_entry changes
\* the table only at its commit, which adds exactly one row, with an id no
\* stored row has, and leaves every stored row as it is (a call that raises
\* leaves the table as it is); a call of pop_last_entry changes it only at
\* its commit, which removes exactly one row; pair_net_cents,
\* top_counterparties and recent_entries leave the table as it is.
C18_RowsOnlyAddedOrRemoved ==
    [][/\ \A r \in ledger : \A x \in ledger' : r.id = x.id => r = x
       /\ \A p \in Conns :
            /\ StepOf(p, "add_entry")
                 => IF Commits(p)
                    THEN /\ ledger \subseteq ledger'
                         /\ Cardinality(ledger' \ ledger) = 1
                         /\ \A x \in ledger' \ ledger : \A r \in ledger : r.id # x.id
                    ELSE ledger' = ledger
            /\ StepOf(p, "pop_last_entry")
                 => IF Commits(p)
                    THEN /\ ledger' \subseteq ledger
                         /\ Cardinality(ledger \ ledger') = 1
                    ELSE ledger' = ledger
            /\ (\/ StepOf(p, "pair_net_cents")
                \/ StepOf(p, "top_counterparties")
                \/ StepOf(p, "recent_entries"))
                 => ledger' = ledger]_vars

\* C18's cases: a row was deleted from a table of three, and a reader has
\* answered from a table with rows.
C18_Witness ==
    \E p \in Conns :
        /\ Returning(p, "pop_last_entry")
        /\ conn[p].val # <<>>
        /\ Cardinality(ledger) = 2
        /\ \E r \in ledger : r.id > conn[p].val[1].id

C18_WitnessRead ==
    \E p \in Conns :
        /\ Returning(p, "recent_entries")
        /\ Len(conn[p].val) = 2

\* The input without the white space around it.
Trimmed(s) ==
    LET inked == {i \in 1..Len(s) : ~IsSpace(s[i])}
    IN  IF inked = {} THEN <<>>
        ELSE SubSeq(s, CHOOSE i \in inked : \A k \in inked : i <= k,
                       CHOOSE i \in inked : \A k \in inked : k <= i)

\* Digits, optionally followed by '.' or ',' and one or two digits.
WellFormed(t) ==
    LET others == {i \in 1..Len(t) : ~IsDigit(t[i])}
    IN  /\ t # <<>>
        /\ Cardinality(others) <= 1
        /\ \A i \in others : /\ t[i] \in {DOT, COMMA}
                             /\ i > 1
                             /\ Len(t) - i \in {1, 2}

\* A well-formed amount is zero when all its digits are.
ZeroAmount(t) == \A i \in 1..Len(t) : IsDigit(t[i]) => DigitVal(t[i]) = 0

\* C15: parse_amount_to_cents fails with the invalid-format error for every
\* input that, trimmed of white space, is not digits optionally followed by
\* '.' or ',' and one or two digits; it fails with the other,
\* non-positive-amount error for every well-formed input whose amount is
\* zero; and it returns a value only for a well-formed input whose amount is
\* greater than zero, the value then being positive.  (Digits and white
\* space are those of every script; a well-formed amount greater than zero
\* gets neither of the two errors.)
C15_ParseRejects ==
    ret.op = "parse_amount_to_cents" =>
        LET t == Trimmed(ret.args)
        IN  /\ ~WellFormed(t) => ret.err = ERR_FORMAT /\ ret.val = <<>>
            /\ (WellFormed(t) /\ ZeroAmount(t))
                 => ret.err = ERR_NONPOSITIVE /\ ret.val = <<>>
            /\ (WellFormed(t) /\ ~ZeroAmount(t))
                 => ret.err \notin {ERR_FORMAT, ERR_NONPOSITIVE}
            /\ ret.err = ""
                 => /\ WellFormed(t) /\ ~ZeroAmount(t)
                    /\ ret.val # <<>> /\ ret.val[1] # <<0>>
            /\ ERR_FORMAT # ERR_NONPOSITIVE

\* C15's cases: "0.00" is refused as not positive, "5.123", "-5", "" and
\* "abc" as malformed, and " 120,5<tab>" is accepted; so is an amount in
\* Arabic-Indic digits between no-break spaces.
C15_Witness ==
    /\ ret.op = "parse_amount_to_cents"
    /\ ret.args = <<48, 46, 48, 48>>
    /\ ret.err = ERR_NONPOSITIVE

C15_WitnessFormat ==
    /\ ret.op = "parse_amount_to_cents"
    /\ ret.args \in {<<53, 46, 49, 50, 51>>, <<45, 53>>, <<>>,
                     <<97, 98, 99>>}
    /\ ret.err = ERR_FORMAT

C15_WitnessValue ==
    /\ ret.op = "parse_amount_to_cents"
    /\ ret.args = <<32, 49, 50, 48, 44, 53, 9>>
    /\ ret.val = <<(<<1, 2, 0, 5, 0>>)>>

C15_WitnessScripts ==
    /\ ret.op = "parse_amount_to_cents"
    /\ ret.args = <<160, 1635, 44, 1635>>
    /\ ret.val = <<(<<3, 3, 0>>)>>


\* The digits before and after the separator of a well-formed amount.
IntegerPart(t) ==
    LET seps == {i \in 1..Len(t) : ~IsDigit(t[i])}
    IN  IF seps = {} THEN t ELSE SubSeq(t, 1, (CHOOSE i \in seps : TRUE) - 1)

FractionPart(t) ==
    LET seps == {i \in 1..Len(t) : ~IsDigit(t[i])}
    IN  IF seps = {} THEN <<>> ELSE SubSeq(t, (CHOOSE i \in seps : TRUE) + 1, Len(t))

\* The fraction padded with zeros to two digits.
Padded(t) == SubSeq(FractionPart(t) \o <<48, 48>>, 1, 2)

\* integerPart * 100 + the padded fraction, as a numeral.
ExactCents(t) == IntOf(IntegerPart(t) \o Padded(t))

\* The amount with its zero-padding made canonical: no leading zeros, '.',
\* two fraction digits.
Canonical(t) ==
    LET n == IntOf(IntegerPart(t))
    IN  [i \in 1..Len(n) |-> 48 + n[i]] \o <<DOT>> \o Padded(t)

\* The amount is typed in the digits '0' to '9'.
Decimal(t) == \A i \in 1..Len(t) : IsDigit(t[i]) => t[i] \in 48..57

\* C16: for every positive amount typed in the digits '0' to '9' with at
\* most two fraction digits, parse_amount_to_cents returns exactly
\* integerPart * 100 + the fraction padded to two digits, and cents / 100
\* printed with two decimals is the amount typed, up to its zero-padding.
C16_ExactRoundTrip ==
    (ret.op = "format" /\ Decimal(Trimmed(ret.args))) =>
        /\ ret.cents = ExactCents(Trimmed(ret.args))
        /\ ret.err = ""
        /\ ret.val = Canonical(Trimmed(ret.args))


\* The /owe and /paid commands of the history.
Cmds == {i \in 1..Len(hist) : hist[i].call.op \in {"owe", "paid"}}

\* What the claim calls a validation failure: the amount typed is malformed
\* or not positive, or the caller names themselves.
Invalid(args) ==
    \/ ~WellFormed(Trimmed(args.amount))
    \/ ZeroAmount(Trimmed(args.amount))
    \/ args.user = args.actor

\* C17: when /owe or /paid is given a malformed amount, an amount that is
\* not positive, or the caller as the other party, the handler fails before
\* it opens a connection (no transaction is begun), the table after the
\* command is the table before it, and the command is answered with the
\* failure and no id.
C17_ValidatedBeforeWrite ==
    /\ \A p \in Conns :
         (/\ Busy(p)
          /\ conn[p].cmd # <<>>
          /\ Invalid(conn[p].cmd[1].args))
           => /\ conn[p].pc = "send_message"
              /\ lock # p
              /\ conn[p].err \in {ERR_FORMAT, ERR_NONPOSITIVE, "ValueError"}
              /\ conn[p].val = <<>>
    /\ \A i \in Cmds :
         Invalid(hist[i].call.args) =>
            /\ After(i) = hist[i].before
            /\ hist[i].call.err \in {ERR_FORMAT, ERR_NONPOSITIVE, "ValueError"}
            /\ hist[i].call.val = <<>>

\* C17's cases, each after a row was stored: a self-referential /owe of a
\* good amount, a /paid of zero, and an /owe of a malformed amount.
C17_Witness ==
    \E i \in Cmds :
        /\ hist[i].call.op = "owe"
        /\ hist[i].call.args.user = hist[i].call.args.actor
        /\ WellFormed(Trimmed(hist[i].call.args.amount))
        /\ ~ZeroAmount(Trimmed(hist[i].call.args.amount))
        /\ hist[i].before # {}

C17_WitnessZero ==
    \E i \in Cmds :
        /\ hist[i].call.op = "paid"
        /\ hist[i].call.err = ERR_NONPOSITIVE
        /\ hist[i].before # {}

C17_WitnessMalformed ==
    \E i \in Cmds :
        /\ hist[i].call.op = "owe"
        /\ hist[i].call.err = ERR_FORMAT
        /\ hist[i].before # {}

\* The table with every row tagged as a debt.
Untagged(T) == {[r EXCEPT !.kind = "debt"] : r \in T}

\* The i-th command of the history is a successful op.
Did(i, op) ==
    /\ i \in Cmds
    /\ hist[i].call.op = op
    /\ hist[i].call.err = ""

\* The amount typed to the i-th command, in cents.
TypedCents(i) == NatOf(ExactCents(Trimmed(hist[i].call.args.amount)))

\* pair_net_cents(guild, U, X) in the table T, U the member the i-th command
\* names and X its caller.
NetOfNamed(T, i) ==
    pair_net_cents_result(T, hist[i].call.args.guild_id,
                          hist[i].call.args.user, hist[i].call.args.actor).val

\* C19: a successful /owe by X naming U with amount a stores one row with
\* creditor U and debtor X and makes pair_net_cents(guild, U, X) greater by
\* exactly a; a successful /paid by X naming U stores one row with creditor
\* X and debtor U and makes it smaller by exactly a; /owe followed by /paid
\* of the same amount leaves it as it was before the two; and the value is
\* the same with every row's kind tag replaced.
C19_OweRaisesPaidLowers ==
    /\ \A i \in Cmds : \A op \in {"owe", "paid"} :
         Did(i, op) =>
           LET X == hist[i].call.args.actor
               U == hist[i].call.args.user
               new == After(i) \ hist[i].before
           IN  /\ hist[i].before \subseteq After(i)
               /\ Cardinality(new) = 1
               /\ \A r \in new :
                    /\ r.id = hist[i].call.val[1]
                    /\ r.guild_id = hist[i].call.args.guild_id
                    /\ r.amount_cents = TypedCents(i)
                    /\ r.creditor_id = IF op = "owe" THEN U ELSE X
                    /\ r.debtor_id = IF op = "owe" THEN X ELSE U
               /\ NetOfNamed(After(i), i)
                    = NetOfNamed(hist[i].before, i)
                      + (IF op = "owe" THEN TypedCents(i) ELSE -TypedCents(i))
               /\ NetOfNamed(Untagged(After(i)), i) = NetOfNamed(After(i), i)
    /\ \A i \in Cmds :
         (/\ Did(i, "owe") /\ Did(i + 1, "paid")
          /\ hist[i + 1].call.args.actor = hist[i].call.args.actor
          /\ hist[i + 1].call.args.user = hist[i].call.args.user
          /\ TypedCents(i + 1) = TypedCents(i))
           => NetOfNamed(After(i + 1), i) = NetOfNamed(hist[i].before, i)

\* C19's case: a row is stored, then X owes U an amount and pays it back.
C19_Witness ==
    /\ Len(hist) = 3
    /\ hist[1].call.err = ""
    /\ Did(2, "owe") /\ Did(3, "paid")
    /\ hist[3].call.args.actor = hist[2].call.args.actor
    /\ hist[3].call.args.user = hist[2].call.args.user
    /\ TypedCents(3) = TypedCents(2)
    /\ NetOfNamed(ledger, 2) # 0

====
